---- MODULE Spec2Model ----
(***************************************************************************)
(* A model of the ii-agent runtime: the conversation history               *)
(* (llm/message_history.py), the agent turn loop (agents/anthropic_fc.py), *)
(* the event worker and the websocket session server (ws_server.py).       *)
(*                                                                         *)
(* Three specifications share the variables:                               *)
(*   SpecHistory  the MessageHistory object under arbitrary call sequences *)
(*   SpecAgent    run_agent called again and again by one caller, with     *)
(*                KeyboardInterrupt delivered at any point of a turn       *)
(*   SpecServer   one websocket connection: handlers, the run thread, the  *)
(*                event worker                                             *)
(***************************************************************************)
EXTENDS Integers, Sequences, FiniteSets, TLC

VARIABLES
    history,      \* agent.history: [message_lists, last_user_prompt_index]
    histErr,      \* the exception the last MessageHistory call raised, or "none"
    interrupted,  \* agent.interrupted
    answer,       \* tool_manager.complete_tool.answer
    max_turns,    \* agent.max_turns
    queue,        \* agent.message_queue: events put and not yet taken
    produced,     \* number of events put on the queue so far
    pc,           \* where the run_agent call is
    remaining,    \* run_impl: remaining_turns
    cur,          \* run_impl: current_messages
    call,         \* run_impl: tool_call
    result,       \* what run_agent returned, or the exception it raised
    runs,         \* number of run_agent calls made
    intAt,        \* where a KeyboardInterrupt hit the current run, or "none"
    modelCalls,   \* client.generate calls of the current run
    runEvents,    \* the events the current run put on the queue, in order
    nextId,       \* the tool_call_id the model gives its next ToolCall
    stale,        \* "truncated": edit_query cut the history under the run in
                  \* flight; "used": the run then read or wrote the history
    connected,    \* the websocket connection is open
    agentInit,    \* active_agents holds the connection's agent
    agentWs,      \* agent.websocket is not None
    task,         \* active_tasks[websocket]: "absent", "scheduled", "running", "done"
    taskResume,   \* the resume argument of the scheduled run_agent_async
    inFlight,     \* run_agent_async tasks created and not yet finished
    handler,      \* "idle", or "edit": edit_query is between its sends
    msgs,         \* client messages received
    db,           \* the session's event rows, in insertion order
    sent,         \* the events the worker sent to the client channel, in order
    replies,      \* what the handlers sent to the websocket, in order
    worker,       \* the task of _process_messages: "absent", "running", "stopped"
    faults,       \* database, send and write failures so far
    agent_memory, \* the files of <workspace>/agent_memory: name and content
    files,        \* the file system seen by the editor: what is at each path
    file_history, \* StrReplaceEditorTool._file_history: the undo stack of each path
    prior,        \* for each path, the files before each edit that was not undone
    run_input,    \* the input of the last run of the tool
    run_output,   \* what the last run of the tool returned
    tool_calls,   \* the adjusted tool calls of one model turn that were not run yet
    given,        \* the tool calls as the model returned them, and the file then
    child,        \* BashTool.child: the persistent shell and what it printed
    command_filters,                \* BashTool.command_filters
    additional_banned_command_strs, \* the banned strings the tool was made with
    require_confirmation,           \* BashTool.require_confirmation
    bash_calls,   \* the number of runs of the shell tool
    bash_input,   \* the command of the last run of the shell tool
    bash_output,  \* what the last run of the shell tool returned
    set_by_command, \* the directory and the variable that the commands run set
    touched,      \* the lines sent to a shell and the confirmations asked so far
    thought_history, \* SequentialThinkingTool.thought_history
    branches,     \* SequentialThinkingTool.branches: the thoughts of each branch
    think_calls,  \* the inputs of all runs of the thinking tool
    think_output  \* the response of the last run of the thinking tool

histVars == <<history, histErr>>
agentVars == <<interrupted, answer, max_turns, queue, produced, pc, remaining,
               cur, call, result, runs, intAt, modelCalls, runEvents, nextId, stale>>
\* the state of the tools and of the workspace
editorVars == <<files, file_history, prior, run_input, run_output>>
parallelVars == <<tool_calls, given>>
bashVars == <<child, command_filters, additional_banned_command_strs, require_confirmation,
              bash_calls, bash_input, bash_output, set_by_command, touched>>
thinkVars == <<thought_history, branches, think_calls, think_output>>
toolVars == <<agent_memory, editorVars, parallelVars, bashVars, thinkVars>>
serverVars == <<connected, agentInit, agentWs, task, taskResume, inFlight, handler,
                msgs, db, sent, replies, worker, faults>>
vars == <<history, histErr, interrupted, answer, max_turns, queue, produced, pc,
          remaining, cur, call, result, runs, intAt, modelCalls, runEvents, nextId,
          stale, connected, agentInit, agentWs, task, taskResume, inFlight, handler,
          msgs, db, sent, replies, worker, faults, agent_memory, files,
          file_history, prior, run_input, run_output, tool_calls, given, child,
          command_filters, additional_banned_command_strs, require_confirmation,
          bash_calls, bash_input, bash_output, set_by_command, touched,
          thought_history, branches, think_calls, think_output>>

----------------------------------------------------------------------------
(* Bounds *)

\* longest history SpecHistory builds
MaxHistLen == 4
\* run_agent calls SpecAgent makes
MaxRuns == 2
\* agent.max_turns
MaxTurns == 1
\* client messages the connection receives
MaxMsgs == 3
\* database and send failures injected
MaxFaults == 1

----------------------------------------------------------------------------
(* Content blocks (llm/base.py) *)

None == -1

TextPrompt(text) == [kind |-> "TextPrompt", id |-> 0, name |-> "", text |-> text]
ImageBlock == [kind |-> "ImageBlock", id |-> 0, name |-> "", text |-> ""]
TextResult(text) == [kind |-> "TextResult", id |-> 0, name |-> "", text |-> text]
ToolCall(id, name, input) ==
    [kind |-> "ToolCall", id |-> id, name |-> name, text |-> input]
ToolFormattedResult(id, name, output) ==
    [kind |-> "ToolFormattedResult", id |-> id, name |-> name, text |-> output]
ToolCallParameters(id, name, input) == [id |-> id, name |-> name, input |-> input]

\* isinstance(msg, (TextPrompt, ToolFormattedResult, ImageBlock))
UserKinds == {"TextPrompt", "ToolFormattedResult", "ImageBlock"}
AssistantKinds == {"TextResult", "ToolCall"}

----------------------------------------------------------------------------
(* MessageHistory.  A method is an operator from the object's state h to   *)
(* [h |-> the state after the call, err |-> the exception raised].         *)

EmptyHistory == [message_lists |-> <<>>, last_user_prompt_index |-> None]

Ok(h) == [h |-> h, err |-> "none"]
Raise(h, e) == [h |-> h, err |-> e]

is_next_turn_user_always(h) == TRUE

is_next_turn_user(h) == Len(h.message_lists) % 2 = 0

is_next_turn_assistant(h) == ~is_next_turn_user(h)

add_user_turn(h, messages) ==
    IF ~is_next_turn_user(h) THEN Raise(h, "ValueError")
    ELSE IF \E i \in DOMAIN messages : messages[i].kind \notin UserKinds
         THEN Raise(h, "TypeError")
         ELSE Ok([h EXCEPT !.message_lists = Append(@, messages)])

\* variant that records the number of turns instead of the index of the last
add_user_prompt_count(h, prompt, image_blocks) ==
    LET r == add_user_turn(h, image_blocks \o <<TextPrompt(prompt)>>)
    IN  IF r.err # "none" THEN r
        ELSE Ok([r.h EXCEPT !.last_user_prompt_index = Len(r.h.message_lists)])

add_user_prompt(h, prompt, image_blocks) ==
    LET r == add_user_turn(h, image_blocks \o <<TextPrompt(prompt)>>)
    IN  IF r.err # "none" THEN r
        ELSE Ok([r.h EXCEPT !.last_user_prompt_index = Len(r.h.message_lists) - 1])

add_assistant_turn(h, messages) ==
    IF ~is_next_turn_assistant(h) THEN Raise(h, "ValueError")
    ELSE Ok([h EXCEPT !.message_lists = Append(@, messages)])

Min(a, b) == IF a < b THEN a ELSE b

add_tool_call_results(h, parameters, results) ==
    IF ~is_next_turn_user(h) THEN Raise(h, "AssertionError")
    ELSE Ok([h EXCEPT !.message_lists =
                Append(@, [i \in 1..Min(Len(parameters), Len(results)) |->
                              ToolFormattedResult(parameters[i].id,
                                                  parameters[i].name, results[i])])])

add_tool_call_result(h, parameters, res) ==
    add_tool_call_results(h, <<parameters>>, <<res>>)

get_messages_for_llm(h) == h.message_lists

SelectCalls(turn) == SelectSeq(turn, LAMBDA m : m.kind = "ToolCall")

get_pending_tool_calls(h) ==
    IF is_next_turn_assistant(h) \/ h.message_lists = <<>> THEN <<>>
    ELSE LET calls == SelectCalls(h.message_lists[Len(h.message_lists)])
         IN  [i \in DOMAIN calls |->
                 ToolCallParameters(calls[i].id, calls[i].name, calls[i].text)]

get_last_assistant_text_response(h) ==
    IF is_next_turn_assistant(h) \/ h.message_lists = <<>> THEN "None"
    ELSE LET texts == SelectSeq(h.message_lists[Len(h.message_lists)],
                                LAMBDA m : m.kind = "TextResult")
         IN  IF texts = <<>> THEN "None" ELSE texts[Len(texts)].text

clear(h) == EmptyHistory

\* variant that slices one turn too far and keeps the last user prompt
clear_from_last_to_user_message_inclusive(h) ==
    IF h.message_lists = <<>> \/ h.last_user_prompt_index = None THEN h
    ELSE [message_lists |-> SubSeq(h.message_lists, 1, h.last_user_prompt_index + 1),
          last_user_prompt_index |-> None]

clear_from_last_to_user_message(h) ==
    IF h.message_lists = <<>> \/ h.last_user_prompt_index = None THEN h
    ELSE [message_lists |-> SubSeq(h.message_lists, 1, h.last_user_prompt_index),
          last_user_prompt_index |-> None]

set_message_list(h, message_list) == [h EXCEPT !.message_lists = message_list]

----------------------------------------------------------------------------
(* SpecHistory: any sequence of calls on one MessageHistory *)

Prompts == {"q1", "q2"}
ImageLists == {<<>>, <<ImageBlock>>}

\* arguments of add_user_turn: user-side blocks, and a turn holding an
\* assistant-side block, which the type check refuses
UserTurnArgs ==
    { <<TextPrompt("q1")>>,
      <<ToolFormattedResult(1, "bash", "out")>>,
      <<ImageBlock, TextPrompt("q2")>>,
      <<TextPrompt("q1"), TextResult("txt")>> }

\* arguments of add_assistant_turn (list[AssistantContentBlock])
AssistantTurnArgs ==
    { <<TextResult("txt")>>,
      <<ToolCall(1, "bash", "valid")>>,
      <<TextResult("txt"), ToolCall(1, "bash", "valid"), ToolCall(2, "bash", "valid")>> }

ToolResultArgs ==
    { [p |-> <<ToolCallParameters(1, "bash", "valid")>>, r |-> <<"out">>],
      [p |-> <<ToolCallParameters(1, "bash", "valid"),
               ToolCallParameters(2, "bash", "valid")>>, r |-> <<"out", "out">>] }

\* no output was saved to agent_memory yet
MemoryIdle == agent_memory = {}

\* no editor tool is in use
EditorUnused ==
    /\ files = <<>>
    /\ file_history = <<>>
    /\ prior = <<>>
    /\ run_input = <<>>
    /\ run_output = <<>>

\* no tool calls were returned together
ParallelIdle ==
    /\ tool_calls = <<>>
    /\ given = [calls |-> <<>>, content |-> <<>>]

\* no shell tool was made
BashUnused ==
    /\ child = <<>>
    /\ command_filters = <<>>
    /\ additional_banned_command_strs = <<>>
    /\ require_confirmation = FALSE
    /\ bash_calls = 0
    /\ bash_input = <<>>
    /\ bash_output = <<>>
    /\ set_by_command = <<>>
    /\ touched = <<>>

\* no thinking tool was made
ThinkUnused ==
    /\ thought_history = <<>>
    /\ branches = <<>>
    /\ think_calls = <<>>
    /\ think_output = <<>>

ToolsIdle ==
    /\ MemoryIdle
    /\ EditorUnused
    /\ ParallelIdle
    /\ BashUnused
    /\ ThinkUnused

AgentIdle ==
    /\ interrupted = FALSE
    /\ answer = ""
    /\ queue = <<>>
    /\ produced = 0
    /\ pc = "idle"
    /\ remaining = 0
    /\ cur = <<>>
    /\ call = ToolCallParameters(0, "", "")
    /\ result = "None"
    /\ runs = 0
    /\ intAt = "none"
    /\ modelCalls = 0
    /\ runEvents = <<>>
    /\ nextId = 1
    /\ stale = "no"

\* no connection
ServerIdle ==
    /\ connected = FALSE
    /\ agentInit = FALSE
    /\ agentWs = FALSE
    /\ task = "absent"
    /\ taskResume = FALSE
    /\ inFlight = 0
    /\ handler = "idle"
    /\ msgs = 0
    /\ db = <<>>
    /\ sent = <<>>
    /\ replies = <<>>
    /\ worker = "absent"
    /\ faults = 0

HistoryInit ==
    /\ ToolsIdle
    /\ history = EmptyHistory
    /\ histErr = "none"
    /\ max_turns = 0
    /\ AgentIdle
    /\ ServerIdle

Room == Len(history.message_lists) < MaxHistLen

HistoryCall(r) ==
    /\ history' = r.h
    /\ histErr' = r.err
    /\ UNCHANGED <<agentVars, serverVars, toolVars>>

AddUserPrompt ==
    /\ Room
    /\ \E p \in Prompts, im \in ImageLists : HistoryCall(add_user_prompt(history, p, im))

AddUserTurn ==
    /\ Room
    /\ \E m \in UserTurnArgs : HistoryCall(add_user_turn(history, m))

AddAssistantTurn ==
    /\ Room
    /\ \E m \in AssistantTurnArgs : HistoryCall(add_assistant_turn(history, m))

AddToolCallResults ==
    /\ Room
    /\ \E a \in ToolResultArgs : HistoryCall(add_tool_call_results(history, a.p, a.r))

AddToolCallResult ==
    /\ Room
    /\ HistoryCall(add_tool_call_result(history, ToolCallParameters(1, "bash", "valid"),
                                        "out"))

Clear == HistoryCall(Ok(clear(history)))

ClearFromLastToUserMessage == HistoryCall(Ok(clear_from_last_to_user_message(history)))

HistoryNext ==
    \/ AddUserPrompt
    \/ AddUserTurn
    \/ AddAssistantTurn
    \/ AddToolCallResults
    \/ AddToolCallResult
    \/ Clear
    \/ ClearFromLastToUserMessage

SpecHistory == HistoryInit /\ [][HistoryNext]_vars

----------------------------------------------------------------------------
(* Events (core/event.py) and the queue *)

AgentResponseEvent(text) == [type |-> "agent_response", id |-> 0, text |-> text]
ToolCallEvent(c) == [type |-> "tool_call", id |-> c.id, text |-> c.name]
ToolResultEvent(c, res) == [type |-> "tool_result", id |-> c.id, text |-> res]
UserMessageEvent(text) == [type |-> "user_message", id |-> 0, text |-> text]

\* the events evs as put on the queue after n earlier ones: seq is the
\* place of the event in the order of production
Stamp(evs, n) ==
    [i \in DOMAIN evs |->
        [type |-> evs[i].type, id |-> evs[i].id, text |-> evs[i].text, seq |-> n + i]]

\* message_queue.put_nowait for each of evs, by the run
Emit(evs) ==
    /\ queue' = queue \o Stamp(evs, produced)
    /\ produced' = produced + Len(evs)
    /\ runEvents' = runEvents \o Stamp(evs, produced)

----------------------------------------------------------------------------
(* StandardContextManager.apply_truncation_if_needed, on the blocks of the *)
(* turn loop: over is whether count_tokens exceeds the token budget.       *)

COMPLETE_MESSAGE == "Completed."
TRUNCATED_TOOL_OUTPUT_MSG == "[Truncated...re-run tool if you need to see output again.]"
TRUNCATED_TOOL_INPUT_MSG ==
    "[Truncated...re-run tool if you need to see input/output again.]"
truncate_keep_n_turns == 3

TruncateBlock(m) ==
    IF m.kind = "ToolFormattedResult" THEN [m EXCEPT !.text = TRUNCATED_TOOL_OUTPUT_MSG]
    ELSE IF m.kind = "ToolCall" /\ m.name \in {"sequential_thinking", "str_replace_editor"}
         THEN [m EXCEPT !.text = TRUNCATED_TOOL_INPUT_MSG]
         ELSE m

apply_truncation_if_needed(message_lists, over) ==
    IF ~over THEN message_lists
    ELSE LET truncation_point == Len(message_lists) - truncate_keep_n_turns
         IN  [i \in DOMAIN message_lists |->
                 IF i <= truncation_point
                 THEN [j \in DOMAIN message_lists[i] |-> TruncateBlock(message_lists[i][j])]
                 ELSE message_lists[i]]

----------------------------------------------------------------------------
(* Tools (tools/tool_manager.py, tools/base.py, tools/complete_tool.py) *)

\* AgentToolManager.get_tools(): the registered tools and the complete tool
ToolNames == {"bash", "complete"}

\* tool inputs: "valid" passes the schema, "invalid" fails it, "empty" is
\* complete's {"answer": ""}, which passes the schema
ToolInputs == {"valid", "invalid", "empty"}

should_stop_never(ans) == FALSE

\* CompleteTool.should_stop
should_stop(ans) == ans # ""

validate_tool_input_any(input) == TRUE

\* LLMTool._validate_tool_input: whether jsonschema.validate accepts the input
validate_tool_input(input) == input # "invalid"

\* LLMTool.run for tool name on input, with the history copy h it is given;
\* fails says whether a tool other than complete raises in run_impl.
\* [out |-> the tool output, err |-> the exception, answer |-> complete's answer]
tool_run(name, input, h, fails, ans) ==
    IF h.message_lists # <<>> /\ ~is_next_turn_user(h)
    THEN [out |-> "", err |-> "AssertionError", answer |-> ans]
    ELSE IF ~validate_tool_input(input)
    THEN [out |-> "Invalid tool input: ", err |-> "none", answer |-> ans]
    ELSE IF name = "complete"
    THEN IF input = "empty"
         THEN [out |-> "", err |-> "AssertionError", answer |-> ans]
         ELSE [out |-> "Task completed", err |-> "none", answer |-> "ans"]
    ELSE IF fails
    THEN [out |-> "", err |-> "RuntimeError", answer |-> ans]
    ELSE [out |-> "out", err |-> "none", answer |-> ans]

\* AgentToolManager.run_tool
run_tool(tool_params, h, fails, ans) ==
    IF tool_params.name \notin ToolNames
    THEN [out |-> "", err |-> "ValueError", answer |-> ans]
    ELSE tool_run(tool_params.name, tool_params.input, h, fails, ans)

----------------------------------------------------------------------------
(* The turn loop: AnthropicFC.run_agent and run_impl *)

MaxTurnsAnswer == "Agent did not complete after max turns"
ToolInterruptMessage == "Tool execution was interrupted by user."
ToolInterruptText ==
    "Tool execution interrupted by user. You can resume by providing a new instruction."
AgentInterruptText ==
    "Agent interrupted by user. You can resume by providing a new instruction."
AgentInterruptMessage == "Agent interrupted by user"

NoCall == ToolCallParameters(0, "", "")

\* the tool calls the model makes: (tool name, input)
CallChoices ==
    { <<"bash", "valid">>, <<"bash", "invalid">>, <<"complete", "valid">>,
      <<"complete", "empty">>, <<"nosuch", "valid">> }

\* what client.generate returns: no block, a text, one tool call, two tool calls
Responses(id) ==
    { <<>>, <<TextResult("txt")>>,
      <<ToolCall(id, "bash", "valid"), ToolCall(id + 1, "bash", "valid")>> }
    \cup { <<ToolCall(id, c[1], c[2])>> : c \in CallChoices }

Instruction(n) == IF n = 1 THEN "q1" ELSE "q2"

InRun == pc \in {"turn", "snap", "generate", "appended", "tool", "resulted"}
AtRest == pc \in {"idle", "returned", "raised"}

\* the run reads or writes the history / does not
Touch == stale' = IF stale = "truncated" THEN "used" ELSE stale
NoTouch == UNCHANGED stale

\* the run goes on to newpc with the history h, having put evs on the queue
Goto(newpc, h, evs) ==
    /\ pc' = newpc
    /\ history' = h
    /\ Emit(evs)
    /\ UNCHANGED <<histErr, max_turns, toolVars, runs, serverVars>>

\* run_agent returns res
Return(h, res, evs) == Goto("returned", h, evs) /\ result' = res

\* run_agent raises exception e
Throw(h, e) == Goto("raised", h, <<>>) /\ result' = e

\* run_agent(instruction, resume=resume) up to the while loop of run_impl
RunAgentCall(resume) ==
    /\ answer' = ""
    /\ nextId' = nextId
    /\ runs' = runs + 1
    /\ intAt' = "none"
    /\ modelCalls' = 0
    /\ cur' = <<>>
    /\ call' = NoCall
    /\ runEvents' = <<>>
    /\ stale' = "no"
    /\ UNCHANGED <<histErr, max_turns, toolVars>>
    /\ IF resume /\ ~is_next_turn_user(history)
       THEN /\ pc' = "raised"
            /\ result' = "AssertionError"
            /\ UNCHANGED <<history, interrupted, remaining>>
       ELSE LET h0 == IF resume THEN history ELSE clear(history)
                r == add_user_prompt(h0, Instruction(runs + 1), <<>>)
            IN  /\ history' = r.h
                /\ interrupted' = FALSE
                /\ remaining' = max_turns
                /\ pc' = IF r.err = "none" THEN "turn" ELSE "raised"
                /\ result' = IF r.err = "none" THEN "None" ELSE r.err

LoopContinues_inclusive(rem) == rem >= 0

\* while remaining_turns > 0
LoopContinues(rem) == rem > 0

\* the top of the while loop: the next turn begins with the copy of the
\* message lists, or the loop is left with the max-turns answer
TurnBegin ==
    /\ pc = "turn"
    /\ IF LoopContinues(remaining)
       THEN /\ remaining' = remaining - 1
            /\ cur' = get_messages_for_llm(history)
            /\ Goto("snap", history, <<>>)
            /\ Touch
            /\ UNCHANGED result
       ELSE /\ Return(history, MaxTurnsAnswer, <<AgentResponseEvent(MaxTurnsAnswer)>>)
            /\ NoTouch
            /\ UNCHANGED <<remaining, cur>>
    /\ UNCHANGED <<interrupted, answer, call, intAt, modelCalls, nextId>>

\* count_tokens, apply_truncation_if_needed, set_message_list; then
\* client.generate is called
TurnTruncate ==
    /\ pc = "snap"
    /\ \E over \in BOOLEAN :
          LET truncated == apply_truncation_if_needed(cur, over)
          IN  /\ cur' = truncated
              /\ Goto("generate", set_message_list(history, truncated), <<>>)
    /\ modelCalls' = modelCalls + 1
    /\ Touch
    /\ UNCHANGED <<interrupted, answer, remaining, call, result, intAt, nextId>>

\* client.generate returns response: the assistant turn is appended and the
\* pending tool calls are read
GenerateReturns ==
    /\ pc = "generate"
    /\ \E response \in Responses(nextId) :
          LET model_response ==
                  IF Len(response) = 0 THEN <<TextResult(COMPLETE_MESSAGE)>> ELSE response
              r == add_assistant_turn(history, model_response)
              pending_tool_calls == get_pending_tool_calls(r.h)
          IN  IF r.err # "none"
              THEN Throw(r.h, r.err) /\ UNCHANGED call
              ELSE IF Len(pending_tool_calls) = 0
              THEN /\ Return(r.h, get_last_assistant_text_response(r.h),
                             <<AgentResponseEvent("Task completed")>>)
                   /\ UNCHANGED call
              ELSE IF Len(pending_tool_calls) > 1
              THEN Throw(r.h, "ValueError") /\ UNCHANGED call
              ELSE /\ call' = pending_tool_calls[1]
                   /\ Goto("appended", r.h, <<ToolCallEvent(pending_tool_calls[1])>>)
                   /\ UNCHANGED result
    /\ nextId' = nextId + 2
    /\ Touch
    /\ UNCHANGED <<interrupted, answer, remaining, cur, intAt, modelCalls>>

\* client.generate raises (a provider error after its retries)
GenerateRaises ==
    /\ pc = "generate"
    /\ Throw(history, "ProviderError")
    /\ NoTouch
    /\ UNCHANGED <<interrupted, answer, remaining, cur, call, intAt, modelCalls, nextId>>

\* the inner try is entered and run_tool is called
ToolStart ==
    /\ pc = "appended"
    /\ Goto("tool", history, <<>>)
    /\ NoTouch
    /\ UNCHANGED <<interrupted, answer, remaining, cur, call, result, intAt,
                   modelCalls, nextId>>

\* run_tool returns or raises; its output is appended as the tool result
ToolReturns ==
    /\ pc = "tool"
    /\ \E fails \in BOOLEAN :
          LET t == run_tool(call, history, fails, answer)
              r == add_tool_call_result(history, call, t.out)
          IN  /\ answer' = t.answer
              /\ IF t.err # "none" THEN Throw(history, t.err)
                 ELSE IF r.err # "none" THEN Throw(r.h, r.err)
                 ELSE /\ Goto("resulted", r.h, <<ToolResultEvent(call, t.out)>>)
                      /\ UNCHANGED result
    /\ Touch
    /\ UNCHANGED <<interrupted, remaining, cur, call, intAt, modelCalls, nextId>>

\* a turn end that returns the answer of the complete tool without putting
\* the agent_response on the queue
TurnEnd_silent ==
    /\ pc = "resulted"
    /\ IF should_stop(answer)
       THEN LET r == add_assistant_turn(history, <<TextResult(COMPLETE_MESSAGE)>>)
            IN  /\ IF r.err # "none" THEN Throw(r.h, r.err)
                    ELSE Return(r.h, answer, <<>>)
                /\ Touch
       ELSE Goto("turn", history, <<>>) /\ NoTouch /\ UNCHANGED result
    /\ UNCHANGED <<interrupted, answer, remaining, cur, call, intAt, modelCalls, nextId>>

\* after the tool result: the run ends when the complete tool has an answer
TurnEnd ==
    /\ pc = "resulted"
    /\ IF should_stop(answer)
       THEN LET r == add_assistant_turn(history, <<TextResult(COMPLETE_MESSAGE)>>)
            IN  /\ IF r.err # "none" THEN Throw(r.h, r.err)
                    ELSE Return(r.h, answer, <<AgentResponseEvent(answer)>>)
                /\ Touch
       ELSE Goto("turn", history, <<>>) /\ NoTouch /\ UNCHANGED result
    /\ UNCHANGED <<interrupted, answer, remaining, cur, call, intAt, modelCalls, nextId>>

\* KeyboardInterrupt in the outer try, outside the inner one
InterruptOuter ==
    /\ pc \in {"snap", "generate", "appended"}
    /\ intAt' = pc
    /\ interrupted' = TRUE
    /\ LET r == add_assistant_turn(history, <<TextResult(AgentInterruptText)>>)
       IN  IF r.err # "none" THEN Throw(r.h, r.err)
           ELSE Return(r.h, AgentInterruptMessage,
                       <<AgentResponseEvent(AgentInterruptMessage)>>)
    /\ UNCHANGED <<answer, remaining, cur, call, modelCalls, nextId, stale>>

\* KeyboardInterrupt in the inner try
InterruptInner ==
    /\ pc \in {"tool", "resulted"}
    /\ intAt' = pc
    /\ interrupted' = TRUE
    /\ LET r1 == add_tool_call_result(history, call, ToolInterruptMessage)
           r2 == add_assistant_turn(r1.h, <<TextResult(ToolInterruptText)>>)
       IN  IF r1.err # "none" THEN Throw(r1.h, r1.err)
           ELSE IF r2.err # "none" THEN Throw(r2.h, r2.err)
           ELSE Return(r2.h, ToolInterruptMessage,
                       <<AgentResponseEvent(ToolInterruptMessage)>>)
    /\ UNCHANGED <<answer, remaining, cur, call, modelCalls, nextId, stale>>

\* KeyboardInterrupt at the top of the loop, outside the try: it leaves run_agent
InterruptLoop ==
    /\ pc = "turn"
    /\ intAt' = pc
    /\ Throw(history, "KeyboardInterrupt")
    /\ UNCHANGED <<interrupted, answer, remaining, cur, call, modelCalls, nextId, stale>>

RunSteps ==
    \/ TurnBegin
    \/ TurnTruncate
    \/ GenerateReturns
    \/ GenerateRaises
    \/ ToolStart
    \/ ToolReturns
    \/ TurnEnd

----------------------------------------------------------------------------
(* SpecAgent: one caller calls run_agent again and again *)

AgentInit ==
    /\ ToolsIdle
    /\ history = EmptyHistory
    /\ histErr = "none"
    /\ max_turns = MaxTurns
    /\ AgentIdle
    /\ ServerIdle

RunAgent ==
    /\ AtRest
    /\ runs < MaxRuns
    /\ \E resume \in BOOLEAN : RunAgentCall(resume)
    /\ UNCHANGED <<queue, produced, serverVars>>

AgentNext ==
    \/ RunAgent
    \/ RunSteps
    \/ InterruptOuter
    \/ InterruptInner
    \/ InterruptLoop

SpecAgent == AgentInit /\ [][AgentNext]_vars

----------------------------------------------------------------------------
(* The session server (ws_server.py) and the event worker                  *)
(* (AnthropicFC._process_messages), for one websocket connection.          *)

\* an event sent to the client channel by a handler, not through the queue
Direct(type, text) == [type |-> type, id |-> 0, text |-> text, seq |-> 0]

Send(evs) == replies' = replies \o evs

\* a failure may be injected while fewer than MaxFaults were
FailChoices == IF faults < MaxFaults THEN BOOLEAN ELSE {FALSE}

TaskBusy_never(t) == FALSE

\* websocket in active_tasks and not active_tasks[websocket].done()
TaskBusy(t) == t \in {"scheduled", "running"}

\* BaseAgent.cancel: sets the interrupted flag
cancel == interrupted' = TRUE

ServerInit ==
    /\ ToolsIdle
    /\ history = EmptyHistory
    /\ histErr = "none"
    /\ max_turns = MaxTurns
    /\ AgentIdle
    /\ connected = TRUE
    /\ agentInit = FALSE
    /\ agentWs = FALSE
    /\ task = "absent"
    /\ taskResume = FALSE
    /\ inFlight = 0
    /\ handler = "idle"
    /\ msgs = 0
    /\ db = <<>>
    /\ sent = <<>>
    /\ replies = <<Direct("connection_established", "")>>
    /\ worker = "absent"
    /\ faults = 0

threadVars == <<pc, remaining, cur, call, result, runs, intAt, modelCalls,
                runEvents, nextId, answer>>

\* the receive loop takes the next client message
Receive ==
    /\ connected
    /\ handler = "idle"
    /\ msgs < MaxMsgs
    /\ msgs' = msgs + 1

\* the query step of query and of edit_query
Schedule(resume) ==
    IF TaskBusy(task)
    THEN /\ Send(<<Direct("error", "A query is already being processed")>>)
         /\ UNCHANGED <<task, taskResume, inFlight>>
    ELSE /\ Send(<<Direct("processing", "")>>)
         /\ task' = "scheduled"
         /\ taskResume' = resume
         /\ inFlight' = inFlight + 1

\* msg_type == "init_agent", for a connection that has no agent yet
InitAgent ==
    /\ Receive
    /\ worker' = "running"
    /\ ~agentInit
    /\ agentInit' = TRUE
    /\ agentWs' = TRUE
    /\ Send(<<Direct("agent_initialized", "")>>)
    /\ UNCHANGED <<history, histErr, interrupted, max_turns, toolVars, queue, produced, stale,
                   threadVars, connected, task, taskResume, inFlight, handler, db, sent,
                   faults>>

\* msg_type == "query"
Query ==
    /\ UNCHANGED worker
    /\ Receive
    /\ \E resume \in BOOLEAN : Schedule(resume)
    /\ UNCHANGED <<history, histErr, interrupted, max_turns, toolVars, queue, produced, stale,
                   threadVars, connected, agentInit, agentWs, handler, db, sent, faults>>

\* msg_type == "cancel"
Cancel ==
    /\ UNCHANGED worker
    /\ Receive
    /\ IF ~agentInit
       THEN /\ Send(<<Direct("error", "No active agent for this connection")>>)
            /\ UNCHANGED interrupted
       ELSE /\ cancel
            /\ Send(<<Direct("system", "Query cancelled")>>)
    /\ UNCHANGED <<history, histErr, max_turns, toolVars, queue, produced, stale, threadVars,
                   connected, agentInit, agentWs, task, taskResume, inFlight, handler,
                   db, sent, faults>>

\* msg_type == "edit_query", up to the check for an active task: sends are
\* awaited, so the run thread and the worker may run before the check.
\* DatabaseManager has no method delete_events_from_last_to_user_message, so
\* the call raises AttributeError, which the handler answers with an error.
EditQueryBegin ==
    /\ UNCHANGED worker
    /\ Receive
    /\ IF ~agentInit
       THEN /\ Send(<<Direct("error", "No active agent for this connection")>>)
            /\ UNCHANGED <<interrupted, history, stale, db, faults, handler>>
       ELSE /\ cancel
            /\ history' = clear_from_last_to_user_message(history)
            /\ stale' = IF InRun /\ history' # history THEN "truncated" ELSE stale
            /\ UNCHANGED <<db, faults>>
            /\ Send(<<Direct("error", "Error clearing history"),
                      Direct("system", "Query editing mode activated")>>)
            /\ handler' = "edit"
    /\ UNCHANGED <<histErr, max_turns, toolVars, queue, produced, threadVars, connected,
                   agentInit, agentWs, task, taskResume, inFlight, sent>>

\* edit_query from the check for an active task on
EditQueryFinish ==
    /\ UNCHANGED worker
    /\ connected
    /\ handler = "edit"
    /\ handler' = "idle"
    /\ \E resume \in BOOLEAN : Schedule(resume)
    /\ UNCHANGED <<history, histErr, interrupted, max_turns, toolVars, queue, produced, stale,
                   threadVars, connected, agentInit, agentWs, msgs, db, sent, faults>>

\* WebSocketDisconnect: cleanup_connection
Disconnect ==
    /\ connected
    /\ connected' = FALSE
    /\ handler' = "idle"
    /\ agentWs' = FALSE
    /\ agentInit' = FALSE
    /\ IF TaskBusy(task)
       THEN task' = "absent" /\ inFlight' = inFlight - 1
       ELSE UNCHANGED <<task, inFlight>>
    /\ UNCHANGED <<history, histErr, interrupted, max_turns, toolVars, queue, produced, stale,
                   threadVars, taskResume, msgs, db, sent, replies, worker, faults>>

\* run_agent_async starts: the user message is put on the queue and
\* run_agent is started in a thread
TaskStart ==
    /\ UNCHANGED worker
    /\ task = "scheduled"
    /\ IF ~agentInit
       THEN /\ Send(<<Direct("error", "Agent not initialized for this connection")>>)
            /\ task' = "done"
            /\ inFlight' = inFlight - 1
            /\ UNCHANGED <<history, histErr, interrupted, max_turns, toolVars, queue, produced,
                           stale, threadVars>>
       ELSE /\ queue' = queue \o Stamp(<<UserMessageEvent(Instruction(runs + 1))>>, produced)
            /\ produced' = produced + 1
            /\ RunAgentCall(taskResume)
            /\ task' = "running"
            /\ UNCHANGED <<replies, inFlight>>
    /\ UNCHANGED <<connected, agentInit, agentWs, taskResume, handler, msgs,
                   db, sent, faults>>

\* run_agent_async ends after run_agent returned or raised
TaskFinish ==
    /\ UNCHANGED worker
    /\ task = "running"
    /\ AtRest
    /\ IF pc = "raised"
       THEN Send(<<Direct("error", "Error running agent")>>)
       ELSE UNCHANGED replies
    /\ task' = "absent"
    /\ inFlight' = inFlight - 1
    /\ UNCHANGED <<history, histErr, interrupted, max_turns, toolVars, queue, produced, stale,
                   threadVars, connected, agentInit, agentWs, taskResume, handler, msgs,
                   db, sent, faults>>

queue_get_last(q) == [item |-> q[Len(q)], rest |-> SubSeq(q, 1, Len(q) - 1)]

\* message_queue.get()
queue_get(q) == [item |-> Head(q), rest |-> Tail(q)]

\* a worker that forwards the client's own messages as well
ShouldSend_every(message, websocket) == websocket

ShouldSend_connected(message, websocket) == message.type # "user_message"

\* message.type != EventType.USER_MESSAGE and self.websocket is not None
ShouldSend(message, websocket) == message.type # "user_message" /\ websocket

AfterSendFailure_kept(websocket) == websocket

\* self.websocket = None, after send_json raised
AfterSendFailure(websocket) == FALSE

AfterError_stops(w) == "stopped"

\* except Exception: the error is logged and the loop goes on
AfterError(w) == w

\* one round of the loop of _process_messages, the session id being set
WorkerStep ==
    /\ worker = "running"
    /\ queue # <<>>
    /\ LET g == queue_get(queue)
       IN  /\ queue' = g.rest
           /\ \E dbFail \in FailChoices :
                 IF dbFail
                 THEN /\ faults' = faults + 1
                      /\ worker' = AfterError(worker)
                      /\ UNCHANGED <<db, sent, agentWs>>
                 ELSE /\ db' = Append(db, g.item)
                      /\ UNCHANGED worker
                      /\ IF ShouldSend(g.item, agentWs)
                         THEN \E sendFail \in FailChoices :
                                 IF sendFail
                                 THEN /\ faults' = faults + 1
                                      /\ agentWs' = AfterSendFailure(agentWs)
                                      /\ UNCHANGED sent
                                 ELSE /\ sent' = Append(sent, g.item)
                                      /\ UNCHANGED <<faults, agentWs>>
                         ELSE UNCHANGED <<faults, sent, agentWs>>
    /\ UNCHANGED <<history, histErr, interrupted, max_turns, toolVars, produced, stale, threadVars,
                   connected, agentInit, task, taskResume, inFlight, handler, msgs, replies>>

ServerNext ==
    \/ InitAgent
    \/ Query
    \/ Cancel
    \/ EditQueryBegin
    \/ EditQueryFinish
    \/ Disconnect
    \/ TaskStart
    \/ TaskFinish
    \/ WorkerStep
    \/ RunSteps

SpecServer == ServerInit /\ [][ServerNext]_vars

----------------------------------------------------------------------------
(* Well-formedness of a history *)

UserTurn(turn) == \A i \in DOMAIN turn : turn[i].kind \in UserKinds
AssistantTurn(turn) == \A i \in DOMAIN turn : turn[i].kind \in AssistantKinds

\* turn 0 is the user's and the speakers alternate
Alternates(ml) ==
    \A i \in DOMAIN ml : IF i % 2 = 1 THEN UserTurn(ml[i]) ELSE AssistantTurn(ml[i])

----------------------------------------------------------------------------
(* C1 *)

\* C1: whatever calls were made on a MessageHistory, its turns alternate
\* starting with a user turn; a call that raised left the history as it
\* was; a user-side addition that went through was made at an even turn
\* count and an assistant addition at an odd one.
C1_Alternation ==
    /\ [](Alternates(history.message_lists))
    /\ [][ /\ (histErr' # "none" => history' = history)
           /\ (Len(history'.message_lists) > Len(history.message_lists) =>
                 LET n == Len(history.message_lists)
                     added == history'.message_lists[n + 1]
                 IN  /\ Len(history'.message_lists) = n + 1
                     /\ UserTurn(added) => n % 2 = 0
                     /\ AssistantTurn(added) => n % 2 = 1) ]_vars

\* a mis-ordered addition was refused on a history of three turns whose
\* last turn is the recorded user prompt
C1_Witness ==
    /\ Len(history.message_lists) = 3
    /\ history.last_user_prompt_index = 2
    /\ histErr = "ValueError"

\* the blocks of kind k in a turn
BlocksOf(turn, k) == SelectSeq(turn, LAMBDA m : m.kind = k)

\* every ToolCall is answered by exactly one ToolFormattedResult with its id
\* in the turn that follows
Answered(ml) ==
    \A i \in DOMAIN ml :
        \A j \in DOMAIN ml[i] :
            ml[i][j].kind = "ToolCall" =>
                /\ i < Len(ml)
                /\ Cardinality({k \in DOMAIN ml[i + 1] :
                                   /\ ml[i + 1][k].kind = "ToolFormattedResult"
                                   /\ ml[i + 1][k].id = ml[i][j].id}) = 1

WellFormed(h) == Alternates(h.message_lists) /\ Answered(h.message_lists)

Last(s) == s[Len(s)]

\* the events of type t among evs
EventsOf(evs, t) == SelectSeq(evs, LAMBDA e : e.type = t)

----------------------------------------------------------------------------
(* C2 *)

\* C2: whenever run_agent is not executing, every ToolCall of the history
\* is answered by exactly one ToolFormattedResult with the same id in the
\* next turn.
C2_CallsAnswered == AtRest => Answered(history.message_lists)

----------------------------------------------------------------------------
(* C3 *)

\* C3: after a KeyboardInterrupt during the model call, between the
\* assistant turn and the tool, during the tool or after the tool result,
\* run_agent is left with a well-formed history and the user's turn next.
C3_InterruptResumable ==
    (AtRest /\ intAt \in {"generate", "appended", "tool", "resulted"}) =>
        /\ is_next_turn_user(history)
        /\ WellFormed(history)

----------------------------------------------------------------------------
(* C5 *)

\* C5: once the complete tool ran with a valid non-empty answer in a turn
\* that no KeyboardInterrupt hit, the run makes no further model call; it
\* returns the answer with the history ending in the ToolFormattedResult
\* and the assistant text "Completed.", and the last two events of the run
\* are the tool_result and the run's only agent_response, which carries
\* the answer.
C5_CompleteEndsRun ==
    (runs > 0 /\ answer # "" /\ intAt = "none") =>
        LET ml == history.message_lists
            n == Len(ml)
        IN  /\ pc \in {"resulted", "returned"}
            /\ call.name = "complete"
            /\ pc = "resulted" =>
                  /\ n >= 1
                  /\ ml[n] = <<ToolFormattedResult(call.id, "complete", "Task completed")>>
            /\ pc = "returned" =>
                  /\ result = answer
                  /\ n >= 2
                  /\ ml[n - 1] = <<ToolFormattedResult(call.id, "complete", "Task completed")>>
                  /\ ml[n] = <<TextResult(COMPLETE_MESSAGE)>>
                  /\ Len(runEvents) >= 2
                  /\ Last(runEvents).type = "agent_response"
                  /\ Last(runEvents).text = answer
                  /\ runEvents[Len(runEvents) - 1].type = "tool_result"
                  /\ runEvents[Len(runEvents) - 1].id = call.id
                  /\ Len(EventsOf(runEvents, "agent_response")) = 1

\* a run returned the answer of the complete tool
C5_Witness ==
    /\ pc = "returned"
    /\ answer # ""
    /\ result = answer
    /\ intAt = "none"

----------------------------------------------------------------------------
(* C6 *)

\* C6: a run never makes more than max_turns model calls, and a run that
\* left the loop because the budget was used up made exactly max_turns
\* calls, put agent_response "Agent did not complete after max turns" on
\* the queue last and returned that string; a returned run whose history
\* ends in a tool result is such a run.
C6_MaxTurns ==
    /\ modelCalls <= max_turns
    /\ InRun => modelCalls + remaining <= max_turns
    /\ (pc = "returned" /\ result = MaxTurnsAnswer) =>
          /\ modelCalls = max_turns
          /\ runEvents # <<>>
          /\ Last(runEvents).type = "agent_response"
          /\ Last(runEvents).text = MaxTurnsAnswer
    /\ (pc = "returned" /\ ~is_next_turn_user(history)) => result = MaxTurnsAnswer

\* a run used up its budget on a tool call and returned the max-turns answer
C6_Witness ==
    /\ pc = "returned"
    /\ result = MaxTurnsAnswer
    /\ modelCalls = max_turns
    /\ max_turns > 0
    /\ Len(EventsOf(runEvents, "tool_result")) = max_turns

----------------------------------------------------------------------------
(* C7 *)

\* C7: when a run that was not interrupted has ended, every tool_call event
\* it put on the queue is followed by a tool_result event with the same id.
C7_ToolResultFollows ==
    (AtRest /\ intAt = "none" /\ ~interrupted) =>
        \A i \in DOMAIN runEvents :
            runEvents[i].type = "tool_call" =>
                \E j \in DOMAIN runEvents :
                    /\ j > i
                    /\ runEvents[j].type = "tool_result"
                    /\ runEvents[j].id = runEvents[i].id

----------------------------------------------------------------------------
(* C4 *)

\* C4: once cancel() was invoked on a run in flight, the turn loop starts
\* no further model call and no further tool execution in that run.
C4_CancelStopsRun ==
    [][ (interrupted /\ InRun) =>
           /\ ~(pc # "generate" /\ pc' = "generate")
           /\ ~(pc # "tool" /\ pc' = "tool") ]_vars

----------------------------------------------------------------------------
(* C8 *)

StrictlyIncreasing(evs) ==
    \A i, j \in DOMAIN evs : i < j => evs[i].seq < evs[j].seq

\* C8: the stored events, followed by the events still queued, are in the
\* order of their production, and so are the events the worker sent to the
\* client, followed by those still queued; each event sent is a session
\* event other than a user_message; the worker takes the oldest event of
\* the queue, and a step in which it stores an event without sending it
\* leaves what the client was sent as it was.
C8_FifoOrder ==
    /\ [](StrictlyIncreasing(db \o queue))
    /\ [](StrictlyIncreasing(sent \o queue))
    /\ [](\A i \in DOMAIN sent : sent[i].type # "user_message" /\ sent[i].seq > 0)
    /\ [][ Len(queue') < Len(queue) =>
              /\ queue' = Tail(queue)
              /\ db' \in {db, Append(db, Head(queue))}
              /\ sent' \in {sent, Append(sent, Head(queue))}
              /\ sent' # sent => db' # db ]_vars

\* the worker sent an event, a later send failed, and the events after it
\* were stored all the same
C8_Witness ==
    /\ connected
    /\ agentInit
    /\ ~agentWs
    /\ queue = <<>>
    /\ Len(sent) >= 1
    /\ Len(db) >= Len(sent) + 3

----------------------------------------------------------------------------
(* C9 *)

BusyText == "A query is already being processed"

\* C9: the connection never has two runs scheduled or running; a run starts
\* only when none is executing; a query that is answered with the error
\* "A query is already being processed" arrived while a run was in flight
\* and starts none, and a query that arrives when no run is in flight is
\* acknowledged and its run scheduled, the agent staying as it is.
C9_SingleRun ==
    [][ /\ inFlight' <= 1
        /\ runs' # runs => (AtRest /\ inFlight = 1)
        /\ (replies' # replies /\ Last(replies').text = BusyText) =>
              /\ TaskBusy(task)
              /\ UNCHANGED <<task, inFlight, runs, pc, history, queue, agentInit>>
        /\ (replies' # replies /\ Last(replies').type = "processing") =>
              /\ ~TaskBusy(task)
              /\ task' = "scheduled"
              /\ inFlight' = 1
              /\ UNCHANGED <<agentInit, history>> ]_vars

\* a query was refused while the run of an earlier one was executing
C9_Witness ==
    /\ Last(replies).text = BusyText
    /\ task = "running"
    /\ InRun
    /\ inFlight = 1
    /\ runs = 1

----------------------------------------------------------------------------
(* C10 *)

\* C10: a run that was in flight when edit_query truncated the history
\* neither reads nor writes the history afterwards.
C10_EditAfterRelease == stale # "used"

----------------------------------------------------------------------------
(* C11 *)

\* the task that is scheduled was scheduled by edit_query
FromEdit ==
    /\ Len(replies) >= 2
    /\ Last(replies).type = "processing"
    /\ replies[Len(replies) - 1].text = "Query editing mode activated"

\* C11: the query step of an edit_query schedules a run, and that run
\* begins on the history edit_query left, with the new prompt added to it.
C11_EditStartsRun ==
    [][ /\ (handler = "edit" /\ handler' = "idle" /\ connected') =>
              task' = "scheduled"
        /\ (task = "scheduled" /\ task' = "running" /\ FromEdit) =>
              /\ pc' = "turn"
              /\ history'.message_lists =
                    Append(history.message_lists, <<TextPrompt(Instruction(runs + 1))>>) ]_vars

----------------------------------------------------------------------------
(* C12 *)

\* the index of the last user_message row, 0 when there is none
LastUserMessage(rows) ==
    LET S == {i \in DOMAIN rows : rows[i].type = "user_message"}
    IN  IF S = {} THEN 0 ELSE CHOOSE i \in S : \A j \in S : j <= i

\* the rows before the last user_message row
BeforeLastUserMessage(rows) ==
    IF LastUserMessage(rows) = 0 THEN rows
    ELSE SubSeq(rows, 1, LastUserMessage(rows) - 1)

\* C12: an edit_query on an agent leaves in the store exactly the events
\* that preceded the last user_message event.
C12_EditDeletesEvents ==
    [][ (handler = "idle" /\ handler' = "edit") => db' = BeforeLastUserMessage(db) ]_vars

----------------------------------------------------------------------------
(* C13 *)

\* C13: once the client has disconnected nothing more is sent to its
\* channel, the worker still takes the events of the queue, and each event
\* it takes is stored unless the database write fails; while no write has
\* failed, the store and the queue together hold every event produced.
C13_PersistAfterDisconnect ==
    /\ [][ ~connected => sent' = sent ]_vars
    /\ [][ (~connected /\ Len(queue') < Len(queue) /\ faults' = faults) =>
              db' = Append(db, Head(queue)) ]_vars
    /\ [](~connected /\ queue # <<>> => ENABLED WorkerStep)
    /\ [](faults = 0 =>
            /\ Len(db) + Len(queue) = produced
            /\ \A i \in 1..produced : (db \o queue)[i].seq = i)

\* the client left during a run; the run went on to its end and all its
\* events were stored, the ones after the disconnect without being sent
C13_Witness ==
    /\ ~connected
    /\ faults = 0
    /\ pc = "returned"
    /\ queue = <<>>
    /\ Len(db) = 4
    /\ Len(sent) = 1

----------------------------------------------------------------------------
(* C14 *)

\* a send has failed: more failures were met than database writes failed
\* (an event whose write failed is in neither the store nor the queue)
SendFailed == faults > produced - Len(db) - Len(queue)

\* C14: the event whose send failed is stored; from then on the channel
\* is absent, the worker sends nothing and attempts no send, and every
\* event it takes whose database write does not fail is stored.
C14_SendFailureDemotes ==
    /\ [](SendFailed => ~agentWs)
    /\ [][ (~SendFailed /\ SendFailed') =>
              (sent' = sent /\ db' = Append(db, Head(queue))) ]_vars
    /\ [][ SendFailed =>
              /\ sent' = sent
              /\ db' # db => (faults' = faults /\ db' = Append(db, Head(queue)))
              /\ (Len(queue') < Len(queue) /\ faults' = faults) =>
                     db' = Append(db, Head(queue)) ]_vars

\* the first send of a run failed, and the run's four events were stored
C14_Witness ==
    /\ SendFailed
    /\ connected
    /\ faults = 1
    /\ pc = "returned"
    /\ queue = <<>>
    /\ Len(sent) = 0
    /\ Len(db) = 4

----------------------------------------------------------------------------
(* C15 *)

\* the number of events whose database write failed: they were taken from
\* the queue and are not in the store
WritesFailed == produced - Len(db) - Len(queue)

\* C15: a failed database write changes nothing but the queue; whatever
\* writes have failed, the worker still takes the events of the queue, the
\* run still takes its steps, and an event taken without a failure is
\* stored, and sent when the client channel is present.
C15_WriteFailureIsolated ==
    /\ [][ (Len(queue') < Len(queue) /\ db' = db) =>
              /\ queue' = Tail(queue)
              /\ UNCHANGED <<sent, agentWs, history, pc, remaining, result, worker>> ]_vars
    /\ [](queue # <<>> => ENABLED WorkerStep)
    /\ [](InRun => ENABLED RunSteps)
    /\ [][ (WritesFailed > 0 /\ Len(queue') < Len(queue) /\ faults' = faults) =>
              /\ db' = Append(db, Head(queue))
              /\ ShouldSend(Head(queue), agentWs) => sent' = Append(sent, Head(queue)) ]_vars

\* the write of the run's first event failed; the run went on to its end
\* and its three later events were stored and sent
C15_Witness ==
    /\ WritesFailed = 1
    /\ pc = "returned"
    /\ queue = <<>>
    /\ Len(db) = 3
    /\ db[1].seq = 2
    /\ Len(sent) = 3

----------------------------------------------------------------------------
(* C16 *)

\* C16: when the call of a registered tool ends and no KeyboardInterrupt
\* came, the run goes on with a tool result for the pending call as the
\* last turn of the history, whether or not the tool raised.
C16_ToolFailureConverted ==
    [][ (pc = "tool" /\ pc' # "tool" /\ intAt' = "none" /\ call.name \in ToolNames) =>
           /\ pc' = "resulted"
           /\ \E m \in DOMAIN Last(history'.message_lists) :
                 /\ Last(history'.message_lists)[m].kind = "ToolFormattedResult"
                 /\ Last(history'.message_lists)[m].id = call.id ]_vars

----------------------------------------------------------------------------
(* C17 *)

\* C17: when the call of a registered tool whose input fails the schema
\* ends and no KeyboardInterrupt came, the tool did not run (no answer was
\* set), the last turn of the history is the tool result "Invalid tool
\* input: " and the message, the same output is put on the queue as the
\* tool_result event, and after it the loop is at its top again.
C17_InvalidInputReported ==
    /\ [][ (/\ pc = "tool" /\ pc' # "tool" /\ intAt' = "none"
            /\ call.name \in ToolNames /\ call.input = "invalid") =>
              /\ pc' = "resulted"
              /\ answer' = answer
              /\ Last(history'.message_lists) =
                    <<ToolFormattedResult(call.id, call.name, "Invalid tool input: ")>>
              /\ Last(queue').type = "tool_result"
              /\ Last(queue').id = call.id
              /\ Last(queue').text = "Invalid tool input: " ]_vars
    /\ [][ (/\ pc = "resulted" /\ pc' # "resulted" /\ intAt' = "none"
            /\ call.input = "invalid") => pc' = "turn" ]_vars

\* a run went through a turn whose tool input was invalid and ended with
\* the max-turns answer
C17_Witness ==
    /\ pc = "returned"
    /\ call.input = "invalid"
    /\ result = MaxTurnsAnswer
    /\ Last(history.message_lists) =
          <<ToolFormattedResult(call.id, call.name, "Invalid tool input: ")>>

----------------------------------------------------------------------------
(* C18 *)

\* C18: when client.generate returns a turn without a tool call, the run
\* returns the last assistant text of that turn and puts exactly one event
\* on the queue, an agent_response with that same text.
C18_ResponseCarriesText ==
    [][ (pc = "generate" /\ pc' = "returned" /\ intAt' = "none") =>
           /\ result' = get_last_assistant_text_response(history')
           /\ Len(queue') = Len(queue) + 1
           /\ Last(queue').type = "agent_response"
           /\ Last(queue').text = result' ]_vars

----------------------------------------------------------------------------
(* C19 *)

\* C19: in every reachable history, clear_from_last_to_user_message yields
\* strictly fewer turns exactly when a last-user-prompt index is recorded,
\* and leaves the history as it is when none is recorded.
C19_ClearShortensIffRecorded ==
    LET after == clear_from_last_to_user_message(history)
    IN  /\ (Len(after.message_lists) < Len(history.message_lists))
              <=> (history.last_user_prompt_index # None)
        /\ (history.last_user_prompt_index = None) => after = history

\* a prompt recorded after an earlier exchange: the call drops it and what
\* follows, and keeps the exchange before it
C19_Witness ==
    /\ history.last_user_prompt_index # None
    /\ history.last_user_prompt_index >= 2
    /\ Len(history.message_lists) > history.last_user_prompt_index + 1
    /\ Len(clear_from_last_to_user_message(history).message_lists)
          = history.last_user_prompt_index

----------------------------------------------------------------------------
(* Context managers on measured histories (llm/context_manager/*.py,       *)
(* llm/token_counter.py).  A text is carried as its number of characters;  *)
(* the input of a tool call is a function from its fields to the number of *)
(* characters of each (string) value.                                      *)

\* number of values of the content hash (16^HASH_LENGTH in the source)
HashSpace == 4

token_budget == 120000
min_length_to_truncate == 1499

\* TokenCounter.count_tokens on a str
token_count(chars) == chars \div 3

RECURSIVE SumOver(_, _)
SumOver(S, f) ==
    IF S = {} THEN 0
    ELSE LET x == CHOOSE y \in S : TRUE IN f[x] + SumOver(S \ {x}, f)

\* len(json.dumps(tool_input)) for string values without escapes:
\* {"k": "v", "k2": "v2"}
json_dumps_len(tool_input) ==
    LET keys == DOMAIN tool_input
        item == [k \in keys |-> Len(k) + tool_input[k] + 6]
    IN  IF keys = {} THEN 2
        ELSE 2 + SumOver(keys, item) + 2 * (Cardinality(keys) - 1)

\* the branch of ContextManager.count_tokens for one block
block_tokens(m) ==
    IF m.kind \in {"TextPrompt", "TextResult", "ToolFormattedResult"}
    THEN token_count(m.text)
    ELSE IF m.kind = "ToolCall" THEN token_count(json_dumps_len(m.text))
         ELSE 0

\* ContextManager.count_tokens
count_tokens(message_lists) ==
    LET turn_tokens == [i \in DOMAIN message_lists |->
                           SumOver(DOMAIN message_lists[i],
                                   [j \in DOMAIN message_lists[i] |->
                                       block_tokens(message_lists[i][j])])]
    IN  SumOver(DOMAIN message_lists, turn_tokens)

TRUNCATED_FILE_MSG ==
    "[Truncated...content saved to {relative_path}. You can view it if needed.]"

\* len(TRUNCATED_FILE_MSG.format(relative_path=...)) for a path of n characters
truncated_file_msg_len(n) == Len(TRUNCATED_FILE_MSG) - Len("{relative_path}") + n

TOOLS_NEED_OUTPUT_FILE_SAVE == {"visit_webpage"}

\* TOOLS_NEED_INPUT_TRUNCATION: the fields of each tool
TOOLS_NEED_INPUT_TRUNCATION(name) ==
    IF name = "sequential_thinking" THEN {"thought"}
    ELSE IF name = "str_replace_editor" THEN {"file_text", "old_str", "new_str"}
         ELSE IF name = "bash" THEN {"command"}
              ELSE {}

\* the body of the loop of StandardContextManager.apply_truncation_if_needed
Standard_TruncateBlock(m) ==
    IF m.kind = "ToolFormattedResult"
    THEN [m EXCEPT !.text = Len(TRUNCATED_TOOL_OUTPUT_MSG)]
    ELSE IF m.kind = "ToolCall" /\ m.name = "sequential_thinking"
         THEN [m EXCEPT !.text =
                  [k \in DOMAIN m.text \cup {"thought"} |->
                      IF k = "thought" THEN Len(TRUNCATED_TOOL_INPUT_MSG) ELSE m.text[k]]]
         ELSE IF m.kind = "ToolCall" /\ m.name = "str_replace_editor"
              THEN [m EXCEPT !.text =
                       [k \in DOMAIN m.text |->
                           IF k \in {"file_text", "old_str", "new_str"}
                           THEN Len(TRUNCATED_TOOL_INPUT_MSG) ELSE m.text[k]]]
              ELSE m

\* a truncation that forgets the old turns instead of shortening their
\* blocks: the alternative the frame of apply_truncation_if_needed excludes
Standard_apply_truncation_dropping(message_lists) ==
    IF count_tokens(message_lists) <= token_budget THEN message_lists
    ELSE LET truncation_point == Len(message_lists) - truncate_keep_n_turns
         IN  IF truncation_point < 1 THEN message_lists
             ELSE SubSeq(message_lists, truncation_point + 1, Len(message_lists))

\* StandardContextManager.apply_truncation_if_needed
Standard_apply_truncation_if_needed(message_lists) ==
    IF count_tokens(message_lists) <= token_budget THEN message_lists
    ELSE LET truncation_point == Len(message_lists) - truncate_keep_n_turns
         IN  [i \in DOMAIN message_lists |->
                 IF i <= truncation_point
                 THEN [j \in DOMAIN message_lists[i] |->
                          Standard_TruncateBlock(message_lists[i][j])]
                 ELSE message_lists[i]]

\* the body of the loop of FileBasedContextManager.apply_truncation_if_needed;
\* path is the number of characters of the relative path of the saved file
FileBased_TruncateBlock(m, path) ==
    IF m.kind = "ToolFormattedResult"
    THEN IF token_count(m.text) >= min_length_to_truncate
         THEN IF m.name \in TOOLS_NEED_OUTPUT_FILE_SAVE
              THEN [m EXCEPT !.text = truncated_file_msg_len(path)]
              ELSE [m EXCEPT !.text = Len(TRUNCATED_TOOL_OUTPUT_MSG)]
         ELSE m
    ELSE IF m.kind = "ToolCall"
         THEN LET fields == TOOLS_NEED_INPUT_TRUNCATION(m.name) \cap DOMAIN m.text
                  should_truncate_all ==
                      \E f \in fields : token_count(m.text[f]) >= min_length_to_truncate
              IN  IF should_truncate_all
                  THEN [m EXCEPT !.text =
                           [k \in DOMAIN m.text |->
                               IF k \in fields THEN Len(TRUNCATED_TOOL_INPUT_MSG)
                               ELSE m.text[k]]]
                  ELSE m
         ELSE m

\* the number of elements of a Python slice seq[:stop] of a list of n elements:
\* a negative stop counts from the end
SliceStop(n, stop) ==
    IF stop >= n THEN n
    ELSE IF stop >= 0 THEN stop
         ELSE IF n + stop >= 0 THEN n + stop ELSE 0

\* FileBasedContextManager.apply_truncation_if_needed: the loop runs over
\* truncated_message_lists[:truncation_point]
FileBased_apply_truncation_if_needed(message_lists, path) ==
    IF count_tokens(message_lists) <= token_budget THEN message_lists
    ELSE LET truncation_point == Len(message_lists) - truncate_keep_n_turns
         IN  [i \in DOMAIN message_lists |->
                 IF i <= SliceStop(Len(message_lists), truncation_point)
                 THEN [j \in DOMAIN message_lists[i] |->
                          FileBased_TruncateBlock(message_lists[i][j], path)]
                 ELSE message_lists[i]]

\* FileBasedContextManager._get_content_hash: the first HASH_LENGTH hex digits of the SHA-256 of the
\* content, a value out of HashSpace; contents that differ may share it
get_content_hash(content) == content % HashSpace

\* the url the file is named after: tool_input.get("url", "unknown_url") of
\* the first block of truncated_message_lists[turn_idx - 1] when that is a
\* tool call (index -1 is the last turn)
PreviousUrl(message_lists, i) ==
    LET previous_message == message_lists[IF i = 1 THEN Len(message_lists) ELSE i - 1][1]
    IN  IF previous_message.kind = "ToolCall" /\ "url" \in DOMAIN previous_message.text
        THEN previous_message.text["url"]
        ELSE "unknown_url"

\* FileBasedContextManager._generate_filename_from_url: the file name is made of the url and the hash
generate_filename_from_url(url, content_hash) == <<url, content_hash>>

\* os.path.exists(filepath)
path_exists(memory, filename) == \E f \in memory : f.name = filename

\* lines 113-150 for one block: the output is written to its file unless a
\* file of that name exists
SaveBlock(message_lists, i, m, memory) ==
    IF /\ m.kind = "ToolFormattedResult"
       /\ token_count(m.text) >= min_length_to_truncate
       /\ m.name \in TOOLS_NEED_OUTPUT_FILE_SAVE
    THEN LET filename == generate_filename_from_url(PreviousUrl(message_lists, i),
                                                     get_content_hash(m.text))
         IN  IF path_exists(memory, filename)
             THEN memory
             ELSE memory \cup {[name |-> filename, content |-> m.text]}
    ELSE memory

RECURSIVE SaveBlocks(_, _, _, _)
\* the files after blocks j.. of turn i were handled
SaveBlocks(message_lists, i, j, memory) ==
    IF j > Len(message_lists[i]) THEN memory
    ELSE SaveBlocks(message_lists, i, j + 1,
                    SaveBlock(message_lists, i, message_lists[i][j], memory))

RECURSIVE SaveTurns(_, _, _, _)
\* the files after turns i..stop were handled
SaveTurns(message_lists, i, stop, memory) ==
    IF i > stop THEN memory
    ELSE SaveTurns(message_lists, i + 1, stop, SaveBlocks(message_lists, i, 1, memory))

\* the files of agent_memory after FileBasedContextManager.apply_truncation_if_needed
FileBased_saved_files(message_lists, memory) ==
    IF count_tokens(message_lists) <= token_budget THEN memory
    ELSE SaveTurns(message_lists, 1,
                   SliceStop(Len(message_lists), Len(message_lists) - truncate_keep_n_turns),
                   memory)

----------------------------------------------------------------------------
(* SpecTruncation: a history is built turn by turn, then one of the two    *)
(* context managers is applied to it; cur holds the result.                *)

MaxTruncTurns == 6

\* lengths of texts: shorter than a sentinel, at the truncation threshold of
\* the file-based manager, and above the token budget on its own
ShortLen == Len("ok")
LongLen == 3 * min_length_to_truncate
\* another content above the threshold with the hash of the first
CollidingLen == LongLen + HashSpace
HugeLen == 3 * (token_budget + 1)

\* _generate_filename_from_url under agent_memory/: from an empty domain and
\* path to a full 20-character domain and 30-character path
RelPathLens ==
    { Len("agent_memory/") + Len("_0123456789.txt"),
      Len("agent_memory/") + 20 + 1 + 30 + Len("_0123456789.txt") }

\* blocks of a user turn
TruncUserBlocks ==
    << TextPrompt(ShortLen), TextPrompt(HugeLen),
       ToolFormattedResult(1, "bash", ShortLen),
       ToolFormattedResult(1, "bash", LongLen),
       ToolFormattedResult(1, "visit_webpage", ShortLen),
       ToolFormattedResult(1, "visit_webpage", LongLen),
       ToolFormattedResult(1, "visit_webpage", CollidingLen) >>

\* blocks of an assistant turn
TruncAssistantBlocks ==
    << TextResult(ShortLen), TextResult(HugeLen),
       ToolCall(1, "bash", [command |-> ShortLen]),
       ToolCall(1, "bash", [command |-> LongLen]),
       ToolCall(1, "sequential_thinking", [thought |-> ShortLen]),
       ToolCall(1, "str_replace_editor", [command |-> ShortLen, old_str |-> ShortLen,
                                          new_str |-> LongLen]),
       ToolCall(1, "str_replace_editor", [command |-> ShortLen, file_text |-> ShortLen]) >>

TruncInit == HistoryInit

TruncRoom == pc = "idle" /\ Len(history.message_lists) < MaxTruncTurns

TruncAddUserTurn ==
    /\ TruncRoom
    /\ is_next_turn_user(history)
    /\ \E i \in DOMAIN TruncUserBlocks :
          HistoryCall(add_user_turn(history, <<TruncUserBlocks[i]>>))

TruncAddAssistantTurn ==
    /\ TruncRoom
    /\ is_next_turn_assistant(history)
    /\ \E i \in DOMAIN TruncAssistantBlocks :
          HistoryCall(add_assistant_turn(history, <<TruncAssistantBlocks[i]>>))

TruncApplied(manager, truncated, memory) ==
    /\ pc = "idle"
    /\ pc' = manager
    /\ cur' = truncated
    /\ agent_memory' = memory
    /\ UNCHANGED <<histVars, interrupted, answer, max_turns, queue, produced, remaining,
                   call, result, runs, intAt, modelCalls, runEvents, nextId, stale,
                   serverVars, editorVars, parallelVars, bashVars, thinkVars>>

ApplyStandard ==
    TruncApplied("standard", Standard_apply_truncation_if_needed(history.message_lists),
                 agent_memory)

ApplyFileBased ==
    \E path \in RelPathLens :
       TruncApplied("file_based",
                    FileBased_apply_truncation_if_needed(history.message_lists, path),
                    FileBased_saved_files(history.message_lists, agent_memory))

TruncNext ==
    \/ TruncAddUserTurn
    \/ TruncAddAssistantTurn
    \/ ApplyStandard
    \/ ApplyFileBased

SpecTruncation == TruncInit /\ [][TruncNext]_vars

----------------------------------------------------------------------------
(* The file editor (tools/str_replace_tool_relative.py).  A text is a      *)
(* sequence of characters; a path is a sequence of segments relative to    *)
(* the workspace root.                                                     *)

NL == "\n"

\* s[i..] starts with t
StartsWithAt(s, t, i) ==
    /\ i + Len(t) - 1 <= Len(s)
    /\ \A k \in 1..Len(t) : s[i + k - 1] = t[k]

RECURSIVE CountFrom(_, _, _)
\* str.count: the occurrences found scanning from i, each search starting
\* after the end of the occurrence found before
CountFrom(s, t, i) ==
    IF i + Len(t) - 1 > Len(s) THEN 0
    ELSE IF StartsWithAt(s, t, i) THEN 1 + CountFrom(s, t, i + Len(t))
         ELSE CountFrom(s, t, i + 1)

\* content.count(old_str), for a non-empty old_str
str_count(s, t) == CountFrom(s, t, 1)

RECURSIVE ReplaceFrom(_, _, _, _)
ReplaceFrom(s, old, new, i) ==
    IF i > Len(s) THEN <<>>
    ELSE IF StartsWithAt(s, old, i) THEN new \o ReplaceFrom(s, old, new, i + Len(old))
         ELSE <<s[i]>> \o ReplaceFrom(s, old, new, i + 1)

\* content.replace(old_str, new_str), for a non-empty old_str
str_replace_all(s, old, new) == ReplaceFrom(s, old, new, 1)

\* not s.strip(): only whitespace
IsBlank(s) == \A i \in DOMAIN s : s[i] \in {NL, " "}

RECURSIVE SplitFrom(_, _, _)
SplitFrom(s, i, line) ==
    IF i > Len(s) THEN <<line>>
    ELSE IF s[i] = NL THEN <<line>> \o SplitFrom(s, i + 1, <<>>)
         ELSE SplitFrom(s, i + 1, Append(line, s[i]))

\* s.split("\n")
split_lines(s) == SplitFrom(s, 1, <<>>)

\* s.splitlines(): no line for an empty text nor after a final line break
splitlines(s) ==
    IF s = <<>> THEN <<>>
    ELSE IF s[Len(s)] = NL THEN split_lines(SubSeq(s, 1, Len(s) - 1))
         ELSE split_lines(s)

RECURSIVE join_lines(_)
\* "\n".join(lines)
join_lines(lines) ==
    IF lines = <<>> THEN <<>>
    ELSE IF Len(lines) = 1 THEN lines[1]
         ELSE lines[1] \o <<NL>> \o join_lines(Tail(lines))

RECURSIVE Resolve(_, _)
\* Path.resolve() of root / path, relative to the root: ".." drops the
\* segment before it, or leads above the root
Resolve(path, done) ==
    IF path = <<>> THEN done
    ELSE IF Head(path) = ".." /\ done # <<>> /\ done[Len(done)] # ".."
         THEN Resolve(Tail(path), SubSeq(done, 1, Len(done) - 1))
         ELSE Resolve(Tail(path), Append(done, Head(path)))

\* WorkspaceManager.workspace_path, resolved
workspace_path(path) == Resolve(path, <<>>)

\* is_path_in_directory(workspace_manager.root, path)
is_path_in_directory(path) == path = <<>> \/ path[1] # ".."

Absent == [kind |-> "absent", content |-> <<>>]
Dir == [kind |-> "dir", content |-> <<>>]
File(content) == [kind |-> "file", content |-> content]

\* ExtendedToolImplOutput, and the paths whose content the command read and
\* wrote
Output(success, text, read, wrote) ==
    [success |-> success, text |-> text, read |-> read, wrote |-> wrote]

\* the result of a command: the files, the undo stacks and the output
Done(fs, hist, out) == [fs |-> fs, hist |-> hist, out |-> out]

OUTSIDE_MSG == "is outside the workspace root directory"

\* write_file / path.write_text
write_file(fs, path, text) == [fs EXCEPT ![path] = File(text)]

\* StrReplaceEditorTool.str_replace
str_replace(fs, hist, path, old_str, new_str) ==
    LET content == fs[path].content
    IN  IF IsBlank(old_str)
        THEN IF ~IsBlank(content)
             THEN Done(fs, hist, Output(FALSE, "old_str is empty", {path}, {}))
             ELSE Done(write_file(fs, path, new_str),
                       [hist EXCEPT ![path] = Append(@, content)],
                       Output(TRUE, "has been edited", {path}, {path}))
        ELSE IF str_count(content, old_str) = 0
             THEN Done(fs, hist, Output(FALSE, "did not appear verbatim", {path}, {}))
             ELSE IF str_count(content, old_str) > 1
                  THEN Done(fs, hist, Output(FALSE, "Multiple occurrences", {path}, {}))
                  ELSE Done(write_file(fs, path, str_replace_all(content, old_str, new_str)),
                            [hist EXCEPT ![path] = Append(@, content)],
                            Output(TRUE, "has been edited", {path}, {path}))

\* StrReplaceEditorTool.insert
insert(fs, hist, path, insert_line, new_str) ==
    LET file_text == fs[path].content
        file_text_lines == split_lines(file_text)
        n_lines_file == Len(file_text_lines)
        new_file_text_lines ==
            SubSeq(file_text_lines, 1, insert_line) \o split_lines(new_str)
               \o SubSeq(file_text_lines, insert_line + 1, n_lines_file)
    IN  IF insert_line < 0 \/ insert_line > n_lines_file
        THEN Done(fs, hist, Output(FALSE, "Invalid insert_line parameter", {path}, {}))
        ELSE Done(write_file(fs, path, join_lines(new_file_text_lines)),
                  [hist EXCEPT ![path] = Append(@, file_text)],
                  Output(TRUE, "has been edited", {path}, {path}))

\* StrReplaceEditorTool.undo_edit
undo_edit(fs, hist, path) ==
    IF hist[path] = <<>>
    THEN Done(fs, hist, Output(FALSE, "No edit history found", {}, {}))
    ELSE Done(write_file(fs, path, hist[path][Len(hist[path])]),
              [hist EXCEPT ![path] = SubSeq(@, 1, Len(@) - 1)],
              Output(TRUE, "undone successfully", {}, {path}))

\* StrReplaceEditorTool.view, without view_range
view(fs, hist, path) ==
    IF fs[path].kind = "dir"
    THEN Done(fs, hist, Output(TRUE, "files and directories up to 2 levels deep", {path}, {}))
    ELSE Done(fs, hist, Output(TRUE, "result of running cat -n", {path}, {}))

\* StrReplaceEditorTool.validate_path: the ToolError it raises, or "ok"; a
\* create on an existing path reads it
validate_path(fs, command, path) ==
    IF fs[path].kind = "absent" /\ command # "create"
    THEN Output(FALSE, "does not exist", {}, {})
    ELSE IF fs[path].kind # "absent" /\ command = "create" /\ fs[path].kind = "dir"
         THEN Output(FALSE, "Ran into", {path}, {})
         ELSE IF fs[path].kind # "absent" /\ command = "create"
                    /\ ~IsBlank(fs[path].content)
              THEN Output(FALSE, "File already exists and is not empty", {path}, {})
              ELSE IF fs[path].kind = "dir" /\ command # "view"
                   THEN Output(FALSE, "is a directory", {}, {})
                   ELSE Output(TRUE, "ok",
                               IF fs[path].kind # "absent" /\ command = "create"
                               THEN {path} ELSE {}, {})

\* out with the paths that were read before added
AlsoRead(r, read) == [r EXCEPT !.out.read = @ \cup read]

\* StrReplaceEditorTool.run_impl; tool_input has the keys that were given
editor_run_impl(fs, hist, tool_input) ==
    LET command == tool_input.command
        ws_path == workspace_path(tool_input.path)
        valid == validate_path(fs, command, ws_path)
        has(k) == k \in DOMAIN tool_input
    IN  IF ~valid.success THEN Done(fs, hist, valid)
        ELSE IF ~is_path_in_directory(ws_path)
        THEN Done(fs, hist, Output(FALSE, OUTSIDE_MSG, valid.read, {}))
        ELSE AlsoRead(
          IF command = "view" THEN view(fs, hist, ws_path)
          ELSE IF command = "create"
          THEN IF ~has("file_text")
               THEN Done(fs, hist, Output(FALSE, "Parameter file_text is required", {}, {}))
               ELSE Done(write_file(fs, ws_path, tool_input.file_text),
                         [hist EXCEPT ![ws_path] = Append(@, tool_input.file_text)],
                         Output(TRUE, "File created successfully", {}, {ws_path}))
          ELSE IF command = "str_replace"
          THEN IF ~has("old_str")
               THEN Done(fs, hist, Output(FALSE, "Parameter old_str is required", {}, {}))
               ELSE str_replace(fs, hist, ws_path, tool_input.old_str,
                                IF has("new_str") THEN tool_input.new_str ELSE <<>>)
          ELSE IF command = "insert"
          THEN IF ~has("insert_line")
               THEN Done(fs, hist, Output(FALSE, "Parameter insert_line is required", {}, {}))
               ELSE IF ~has("new_str")
                    THEN Done(fs, hist, Output(FALSE, "Parameter new_str is required", {}, {}))
                    ELSE insert(fs, hist, ws_path, tool_input.insert_line, tool_input.new_str)
          ELSE undo_edit(fs, hist, ws_path),
          valid.read)

\* StrReplaceEditorTool.run_impl on a path that path.write_text refuses with
\* a PermissionError.  A command that reaches no write ends as it does
\* otherwise.  write_file turns the error into a ToolError and run_impl
\* returns success false: create and insert have changed nothing by then,
\* undo_edit has popped the undo stack.  str_replace has pushed the content
\* and writes by itself; run_impl catches the PermissionError and returns
\* success true.  No file is written and no update is sent.
editor_run_impl_unwritable(fs, hist, tool_input) ==
    LET r == editor_run_impl(fs, hist, tool_input)
    IN  IF r.out.wrote = {} THEN r
        ELSE IF tool_input.command = "str_replace"
        THEN Done(fs, r.hist,
                  Output(TRUE, "could not be edited due to lack of permission",
                         r.out.read, {}))
        ELSE IF tool_input.command = "undo_edit"
        THEN Done(fs, r.hist, Output(FALSE, "Ran into", r.out.read, {}))
        ELSE Done(fs, hist, Output(FALSE, "Ran into", r.out.read, {}))

----------------------------------------------------------------------------
(* SpecEditor: one StrReplaceEditorTool is run again and again on a        *)
(* workspace that holds the file a (or not yet), with the directory above  *)
(* the root holding the file x and no file y.                              *)

MaxContent == 3
MaxUndo == 2

EditorPaths ==
    { <<"a">>, <<>>, <<"..">>, <<"..", "x">>, <<"a", "..", "..", "y">> }

ResolvedPaths == { workspace_path(p) : p \in EditorPaths }

FileTexts == { <<>>, <<"a", "a", "a">>, <<"a", NL, "b">> }
OldStrs == { <<>>, <<"a">>, <<"a", "a">>, <<"b">> }
NewStrs == { <<>>, <<"b">> }
InsertStrs == { <<>>, <<"b">>, <<"b", NL>> }
InsertLines == { 0, 1, 3 }

\* every command on every path, with all its parameters or with none; on
\* the file a, every choice of the parameters as well
EditorInputs ==
    { [command |-> c, path |-> p] :
         c \in {"view", "create", "str_replace", "insert", "undo_edit"}, p \in EditorPaths }
    \cup { [command |-> "create", path |-> p, file_text |-> <<"a", NL, "b">>] :
              p \in EditorPaths }
    \cup { [command |-> "str_replace", path |-> p, old_str |-> <<"b">>, new_str |-> <<>>] :
              p \in EditorPaths }
    \cup { [command |-> "insert", path |-> p, insert_line |-> 0, new_str |-> <<"b">>] :
              p \in EditorPaths }
    \cup { [command |-> "create", path |-> <<"a">>, file_text |-> t] : t \in FileTexts }
    \cup { [command |-> "str_replace", path |-> <<"a">>, old_str |-> o, new_str |-> n] :
              o \in OldStrs, n \in NewStrs }
    \cup { [command |-> "str_replace", path |-> <<"a">>, old_str |-> <<"a">>] }
    \cup { [command |-> "insert", path |-> <<"a">>, insert_line |-> 1] }
    \cup { [command |-> "insert", path |-> <<"a">>, insert_line |-> l, new_str |-> n] :
              l \in InsertLines, n \in InsertStrs }

NoInput == [command |-> "none", path |-> <<>>]
NoOutput == Output(TRUE, "", {}, {})

\* the workspace before the first command, with no undo stack yet
EditorIdle(a) ==
    /\ files = [p \in ResolvedPaths |->
                   IF p = <<"a">> THEN a
                   ELSE IF p = <<"..", "x">> THEN File(<<"b">>)
                        ELSE IF p = <<"..", "y">> THEN Absent ELSE Dir]
    /\ file_history = [p \in ResolvedPaths |-> <<>>]
    /\ prior = [p \in ResolvedPaths |-> <<>>]
    /\ run_input = NoInput
    /\ run_output = NoOutput

EditorInit ==
    /\ history = EmptyHistory
    /\ histErr = "none"
    /\ max_turns = 0
    /\ AgentIdle
    /\ ServerIdle
    /\ MemoryIdle
    /\ ParallelIdle
    /\ BashUnused
    /\ ThinkUnused
    /\ \E a \in {Absent, File(<<>>), File(<<"a", "a", "a">>)} : EditorIdle(a)

\* the tool is run with one input; prior keeps, for each path, the files
\* as they were before each successful edit that was not undone
EditorRan(input, r) ==
    LET p == workspace_path(input.path)
    IN  /\ files' = r.fs
        /\ file_history' = r.hist
        /\ run_input' = input
        /\ run_output' = r.out
        /\ prior' = IF ~r.out.success \/ input.command = "view" THEN prior
                    ELSE IF input.command = "undo_edit"
                         THEN [prior EXCEPT ![p] = SubSeq(@, 1, Len(@) - 1)]
                         ELSE [prior EXCEPT ![p] = Append(@, files[p])]

EditorRun(input) ==
    \E r \in {editor_run_impl(files, file_history, input)} :
        /\ \A q \in ResolvedPaths :
              Len(r.fs[q].content) <= MaxContent /\ Len(r.hist[q]) <= MaxUndo
        /\ EditorRan(input, r)
        /\ UNCHANGED <<histVars, agentVars, serverVars, agent_memory, parallelVars, bashVars,
                     thinkVars>>

\* the tool is run with one input on a path that refuses the write, while
\* fewer than MaxFaults failures were injected; prior follows the undo stack
EditorRunUnwritable(input) ==
    /\ faults < MaxFaults
    /\ faults' = faults + 1
    /\ editor_run_impl(files, file_history, input).out.wrote # {}
    /\ \E r \in {editor_run_impl_unwritable(files, file_history, input)} :
          /\ \A q \in ResolvedPaths : Len(r.hist[q]) <= MaxUndo
          /\ files' = r.fs
          /\ file_history' = r.hist
          /\ run_input' = input
          /\ run_output' = r.out
          /\ prior' = [q \in ResolvedPaths |->
                          IF Len(r.hist[q]) < Len(file_history[q])
                          THEN SubSeq(prior[q], 1, Len(prior[q]) - 1)
                          ELSE IF Len(r.hist[q]) > Len(file_history[q])
                               THEN Append(prior[q], files[q])
                               ELSE prior[q]]
    /\ UNCHANGED <<histVars, agentVars, connected, agentInit, agentWs, task, taskResume,
                   inFlight, handler, msgs, db, sent, replies, worker, agent_memory,
                   parallelVars, bashVars, thinkVars>>

EditorWriteRefused == \E input \in EditorInputs : EditorRunUnwritable(input)

EditorCommand(c) == \E input \in EditorInputs : input.command = c /\ EditorRun(input)

EditorView == EditorCommand("view")
EditorCreate == EditorCommand("create")
EditorStrReplace == EditorCommand("str_replace")
EditorInsert == EditorCommand("insert")
EditorUndoEdit == EditorCommand("undo_edit")

EditorNext ==
    \/ EditorView
    \/ EditorCreate
    \/ EditorStrReplace
    \/ EditorInsert
    \/ EditorUndoEdit
    \/ EditorWriteRefused

SpecEditor == EditorInit /\ [][EditorNext]_vars

----------------------------------------------------------------------------
(* adjust_parallel_calls (tools/str_replace_tool_relative.py): the editor   *)
(* calls the model returned in one turn are put in order and their insert   *)
(* lines shifted, then run one after another.                               *)

\* the sort key of a call: False sorts before True
SortKey(x) ==
    << IF x.command # "insert" THEN 1 ELSE 0,
       IF "insert_line" \in DOMAIN x THEN x.insert_line ELSE 0 >>

KeyLessEq(k1, k2) == k1[1] < k2[1] \/ (k1[1] = k2[1] /\ k1[2] <= k2[2])

\* x put behind the calls of an ordered list whose key is not greater
SortedInsert(sorted, x) ==
    LET n == Cardinality({ i \in DOMAIN sorted : KeyLessEq(SortKey(sorted[i]), SortKey(x)) })
    IN  SubSeq(sorted, 1, n) \o <<x>> \o SubSeq(sorted, n + 1, Len(sorted))

RECURSIVE SortCalls(_, _)
\* list.sort(key): stable
SortCalls(calls, sorted) ==
    IF calls = <<>> THEN sorted
    ELSE SortCalls(Tail(calls), SortedInsert(sorted, Head(calls)))

RECURSIVE ShiftCalls(_, _)
\* the loop that adds line_shift to each insert and increases it
ShiftCalls(calls, line_shift) ==
    IF calls = <<>> THEN <<>>
    ELSE LET c == Head(calls)
         IN  IF c.command = "insert" /\ "insert_line" \in DOMAIN c /\ "new_str" \in DOMAIN c
             THEN <<[c EXCEPT !.insert_line = @ + line_shift]>>
                     \o ShiftCalls(Tail(calls), line_shift + Len(splitlines(c.new_str)))
             ELSE <<c>> \o ShiftCalls(Tail(calls), line_shift)

adjust_parallel_calls(calls) == ShiftCalls(SortCalls(calls, <<>>), 0)

----------------------------------------------------------------------------
(* SpecParallel: the model returns some editor calls on the file a in one  *)
(* turn; they are adjusted and run in the adjusted order.                  *)

MaxCalls == 2

ParallelContent == <<"1", NL, "2">>
ParallelLines == 0..Len(split_lines(ParallelContent))
ParallelStrs == { <<>>, <<"b">>, <<"b", NL>>, <<"b", NL, "c">> }

ParallelCalls ==
    { [command |-> "insert", path |-> <<"a">>, insert_line |-> l, new_str |-> n] :
         l \in ParallelLines, n \in ParallelStrs }
    \cup { [command |-> "str_replace", path |-> <<"a">>, old_str |-> <<"1">>, new_str |-> <<"x">>],
           [command |-> "str_replace", path |-> <<"a">>, old_str |-> <<"2">>, new_str |-> <<>>] }

\* a list of calls of kinds that differ cannot be a set of TLC: the lists
\* are chosen call by call
RECURSIVE CallLists(_)
CallLists(n) ==
    IF n = 0 THEN {<<>>}
    ELSE LET shorter == CallLists(n - 1)
         IN  shorter \cup { <<c>> \o l : c \in ParallelCalls, l \in { s \in shorter : Len(s) = n - 1 } }

ParallelInit ==
    /\ history = EmptyHistory
    /\ histErr = "none"
    /\ max_turns = 0
    /\ AgentIdle
    /\ ServerIdle
    /\ MemoryIdle
    /\ ParallelIdle
    /\ BashUnused
    /\ ThinkUnused
    /\ EditorIdle(File(ParallelContent))

\* the model returns the calls of one turn; they are adjusted
ParallelGiven ==
    /\ given.calls = <<>>
    /\ \E calls \in CallLists(MaxCalls) \ {<<>>} :
          /\ given' = [calls |-> calls, content |-> files[<<"a">>].content]
          /\ tool_calls' = adjust_parallel_calls(calls)
    /\ UNCHANGED <<histVars, agentVars, serverVars, agent_memory, editorVars, bashVars,
                 thinkVars>>

\* the next adjusted call is run
ParallelRun ==
    /\ tool_calls # <<>>
    /\ EditorRan(Head(tool_calls), editor_run_impl(files, file_history, Head(tool_calls)))
    /\ tool_calls' = Tail(tool_calls)
    /\ UNCHANGED <<histVars, agentVars, serverVars, agent_memory, given, bashVars, thinkVars>>

ParallelNext ==
    \/ ParallelGiven
    \/ ParallelRun

SpecParallel == ParallelInit /\ [][ParallelNext]_vars

----------------------------------------------------------------------------
(* The shell tool (tools/bash_tool.py).  A command text is a sequence of   *)
(* words; what the shell printed is a string.                              *)

CD_SUB == <<"cd", "sub">>
EXPORT_V == <<"export", "V=1">>
PWD == <<"pwd">>
ECHO_V == <<"echo", "$V">>
ECHO_HELLO == <<"echo", "hello">>
SLEEP == <<"sleep", "100">>
SLEEP_HELLO == <<"sleep", "100", "&&", "echo", "hello">>
GIT_ADD == <<"git", "add", ".">>
SAY_GIT_ADD == <<"echo", "\"", "git", "add", "\"">>

TIMED_OUT == "Command timed out. Please try again."

\* banned_str in command
Contains(text, sub) == \E i \in 1..Len(text) : StartsWithAt(text, sub, i)

\* command.replace('"', '\\"')
Escaped(command) == str_replace_all(command, <<"\"">>, <<"\\", "\"">>)

\* SSHCommandFilter.filter_command, for a host without user, port or
\* identity file
SSHCommandFilter(command) ==
    <<"ssh", "host", "\"">> \o Escaped(command) \o <<"\"">>

\* DockerCommandFilter.filter_command, without user
DockerCommandFilter(command) ==
    <<"docker", "exec", "container", "/bin/bash", "-l", "-c", "\"">>
       \o Escaped(command) \o <<"\"">>

filter_command(filter, command) ==
    IF filter = "ssh" THEN SSHCommandFilter(command) ELSE DockerCommandFilter(command)

RECURSIVE apply_filters(_, _)
\* BashTool.apply_filters: the filters of the chain, from the first on
apply_filters(filters, command) ==
    IF filters = <<>> THEN command
    ELSE apply_filters(Tail(filters), filter_command(Head(filters), command))

\* BashTool.banned_command_strs
banned_command_strs(additional) ==
    << <<"git", "init">>, <<"git", "commit">>, <<"git", "add">> >> \o additional

\* the loop over the banned strings: one of them is in the command
banned_in_original(banned, original_command, command) ==
    \E i \in DOMAIN banned : Contains(original_command, banned[i])

banned_in(banned, original_command, command) ==
    \E i \in DOMAIN banned : Contains(command, banned[i])

\* a command that runs longer than the timeout of the tool
IsLong(command) == command \in {SLEEP, SLEEP_HELLO}

\* what a long command prints when it ends
LateOutput(command) == IF command = SLEEP_HELLO THEN "hello" ELSE ""

\* the shell after it ran a short command
Effect(sh, command) ==
    IF command = CD_SUB THEN [sh EXCEPT !.cwd = "sub"]
    ELSE IF command = EXPORT_V THEN [sh EXCEPT !.env = "1"]
         ELSE sh

\* what a short command prints in the shell
Printed(sh, command) ==
    IF command = PWD THEN sh.cwd
    ELSE IF command = ECHO_V THEN sh.env
         ELSE IF command = ECHO_HELLO THEN "hello"
              ELSE IF command \in {CD_SUB, EXPORT_V} THEN ""
                   ELSE "output of another host"

\* start_persistent_shell: a new bash in the directory of the process; gen
\* tells the shells of one tool apart
start_persistent_shell(gen) ==
    [gen |-> gen, cwd |-> "home", env |-> "", pending |-> <<>>, running |-> <<>>,
     queued |-> <<>>]

\* the shell ran one line: a short command prints and the prompt follows, a
\* long one keeps running
Ran(sh, command) ==
    IF IsLong(command) THEN [sh EXCEPT !.running = command]
    ELSE [Effect(sh, command) EXCEPT !.pending = Append(@, Printed(Effect(sh, command), command))]

\* child.sendline: the shell runs the line, or keeps it for later while a
\* command is running
sendline(sh, command) ==
    IF sh.running # <<>> THEN [sh EXCEPT !.queued = Append(@, command)]
    ELSE Ran(sh, command)

RECURSIVE Drain(_)
\* the shell runs the lines it kept, up to the next long command
Drain(sh) ==
    IF sh.queued = <<>> \/ sh.running # <<>> THEN sh
    ELSE Drain(Ran([sh EXCEPT !.queued = Tail(@)], Head(sh.queued)))

\* the running command ends: it prints, the prompt follows, and the lines
\* kept are run
Ended(sh) ==
    Drain([sh EXCEPT !.running = <<>>, !.pending = Append(@, LateOutput(sh.running))])

\* child.expect(custom_prompt): what was printed before the first prompt
\* not read yet, or a timeout when no prompt comes; ends tells whether the
\* running command ends during the wait
expect(sh, ends) ==
    LET now == IF sh.pending = <<>> /\ sh.running # <<>> /\ ends THEN Ended(sh) ELSE sh
    IN  IF now.pending # <<>>
        THEN [sh |-> [now EXCEPT !.pending = Tail(@)], ok |-> TRUE, out |-> Head(now.pending)]
        ELSE [sh |-> now, ok |-> FALSE, out |-> "Timeout exceeded."]

\* run_command
run_command(sh, command, ends) == expect(sendline(sh, command), ends)

\* ToolImplOutput: tool_output, and success and reason of auxiliary_data
BashOutput(text, success, reason) == [text |-> text, success |-> success, reason |-> reason]

\* the result of run_impl: the shell of the tool, the output, the lines
\* sent to a shell and the confirmations asked
BashDone(sh, out, lines, asked) == [sh |-> sh, out |-> out, lines |-> lines, asked |-> asked]

\* BashTool.run_impl; confirmation is what the user types when asked, ends
\* whether a command still running ends while the probe waits
bash_run_impl(sh, filters, additional, confirm, original_command, confirmation, ends) ==
    LET command == apply_filters(filters, original_command)
        probe == run_command(sh, ECHO_HELLO, ends)
        shell == IF probe.ok /\ probe.out = "hello" THEN probe.sh
                 ELSE start_persistent_shell(sh.gen + 1)
        started == IF probe.ok /\ probe.out = "hello" THEN 0 ELSE 3
        run == run_command(shell, command, FALSE)
        asked == IF confirm THEN 1 ELSE 0
    IN  IF banned_in(banned_command_strs(additional), original_command, command)
        THEN BashDone(sh, BashOutput("Command not executed due to banned string",
                                     FALSE, "Banned command"), 0, 0)
        ELSE IF confirm /\ confirmation # "y"
        THEN BashDone(sh, BashOutput("Command not executed due to lack of user confirmation.",
                                     FALSE, "User did not confirm"), 0, asked)
        ELSE IF ~run.ok
        THEN BashDone(run.sh, BashOutput(TIMED_OUT, FALSE, ""), started + 2, asked)
        ELSE BashDone(run.sh, BashOutput(run.out, TRUE, ""), started + 2, asked)

----------------------------------------------------------------------------
(* SpecBash: one BashTool, made by create_bash_tool with a workspace       *)
(* directory, runs one command after another; a command that was left      *)
(* running ends at some time.                                              *)

MaxBashCalls == 3

BashCommands ==
    { CD_SUB, EXPORT_V, PWD, ECHO_V, ECHO_HELLO, SLEEP, SLEEP_HELLO, GIT_ADD, SAY_GIT_ADD }

BashFilterChains == { <<>>, <<"docker">>, <<"ssh", "docker">> }
BashAdditional == { <<>>, << <<"docker">> >> }

\* BashTool.__init__: the shell is started and sent to the workspace
BashStarted(filters, additional, confirm) ==
    /\ child = [start_persistent_shell(1) EXCEPT !.cwd = "workspace"]
    /\ command_filters = filters
    /\ additional_banned_command_strs = additional
    /\ require_confirmation = confirm
    /\ bash_calls = 0
    /\ bash_input = <<>>
    /\ bash_output = BashOutput("", TRUE, "")
    /\ set_by_command = [cwd |-> "", env |-> ""]
    /\ touched = [lines |-> 0, asked |-> 0]

BashInit ==
    /\ history = EmptyHistory
    /\ histErr = "none"
    /\ max_turns = 0
    /\ AgentIdle
    /\ ServerIdle
    /\ MemoryIdle
    /\ EditorUnused
    /\ ParallelIdle
    /\ ThinkUnused
    /\ \E filters \in BashFilterChains, additional \in BashAdditional, confirm \in BOOLEAN :
          BashStarted(filters, additional, confirm)

\* the tool is run with one command; set_by_command keeps the directory and
\* the variable the commands that were run set, touched counts the lines
\* sent to a shell and the confirmations asked
BashRun ==
    /\ bash_calls < MaxBashCalls
    /\ \E original_command \in BashCommands, ends \in BOOLEAN,
          confirmation \in (IF require_confirmation THEN {"y", "n"} ELSE {"y"}) :
       \E r \in {bash_run_impl(child, command_filters, additional_banned_command_strs,
                               require_confirmation, original_command, confirmation, ends)} :
          /\ child' = r.sh
          /\ bash_input' = original_command
          /\ bash_output' = r.out
          /\ bash_calls' = bash_calls + 1
          /\ touched' = [lines |-> touched.lines + r.lines, asked |-> touched.asked + r.asked]
          /\ set_by_command' =
                IF r.lines = 0 THEN set_by_command
                ELSE LET command == apply_filters(command_filters, original_command)
                     IN  IF command = CD_SUB THEN [set_by_command EXCEPT !.cwd = "sub"]
                         ELSE IF command = EXPORT_V THEN [set_by_command EXCEPT !.env = "1"]
                              ELSE set_by_command
    /\ UNCHANGED <<command_filters, additional_banned_command_strs, require_confirmation>>
    /\ UNCHANGED <<histVars, agentVars, serverVars, agent_memory, editorVars, parallelVars,
                   thinkVars>>

\* the command that was left running in the shell ends
ChildEnds ==
    /\ child.running # <<>>
    /\ child' = Ended(child)
    /\ UNCHANGED <<command_filters, additional_banned_command_strs, require_confirmation,
                   bash_calls, bash_input, bash_output, set_by_command, touched>>
    /\ UNCHANGED <<histVars, agentVars, serverVars, agent_memory, editorVars, parallelVars,
                   thinkVars>>

BashNext ==
    \/ BashRun
    \/ ChildEnds

SpecBash == BashInit /\ [][BashNext]_vars

----------------------------------------------------------------------------
(* The thinking tool (tools/sequential_thinking_tool.py).  A value of the  *)
(* input is given with its Python type.                                    *)

PyNone == [type |-> "none", n |-> 0, s |-> ""]
PyInt(n) == [type |-> "int", n |-> n, s |-> ""]
PyStr(s) == [type |-> "str", n |-> 0, s |-> s]
PyBool(b) == [type |-> "bool", n |-> IF b THEN 1 ELSE 0, s |-> ""]
PyList == [type |-> "list", n |-> 0, s |-> ""]

\* the truth value of a Python value
Truthy(v) ==
    IF v.type \in {"int", "bool"} THEN v.n # 0
    ELSE IF v.type = "str" THEN v.s # ""
         ELSE FALSE

\* isinstance(v, int): a bool is an int
IsInt(v) == v.type \in {"int", "bool"}

\* _validate_thought_data: the ValueError it raises, or "ok"
validate_thought_data(input_data) ==
    IF ~Truthy(input_data.thought) \/ input_data.thought.type # "str"
    THEN "Invalid thought: must be a string"
    ELSE IF ~Truthy(input_data.thoughtNumber) \/ ~IsInt(input_data.thoughtNumber)
    THEN "Invalid thoughtNumber: must be a number"
    ELSE IF ~Truthy(input_data.totalThoughts) \/ ~IsInt(input_data.totalThoughts)
    THEN "Invalid totalThoughts: must be a number"
    ELSE IF input_data.nextThoughtNeeded.type # "bool"
    THEN "Invalid nextThoughtNeeded: must be a boolean"
    ELSE "ok"

\* the thought with totalThoughts kept as it was given
adjust_total_skipped(validated_input) == validated_input

\* totalThoughts is raised to thoughtNumber when it is below it
adjust_total(validated_input) ==
    IF validated_input.thoughtNumber.n > validated_input.totalThoughts.n
    THEN [validated_input EXCEPT !.totalThoughts = validated_input.thoughtNumber]
    ELSE validated_input

\* the thought is of a branch
IsBranch(validated_input) ==
    Truthy(validated_input.branchFromThought) /\ Truthy(validated_input.branchId)

\* list(self.branches.keys()): the branches that hold a thought
branch_keys(br) == { b \in DOMAIN br : br[b] # <<>> }

ThinkError(message) ==
    [error |-> message, thoughtNumber |-> PyNone, totalThoughts |-> PyNone,
     nextThoughtNeeded |-> PyNone, branches |-> {}, thoughtHistoryLength |-> 0]

ThinkResponse(validated_input, br, hist) ==
    [error |-> "", thoughtNumber |-> validated_input.thoughtNumber,
     totalThoughts |-> validated_input.totalThoughts,
     nextThoughtNeeded |-> validated_input.nextThoughtNeeded,
     branches |-> branch_keys(br), thoughtHistoryLength |-> Len(hist)]

ThinkDone(hist, br, out) == [hist |-> hist, br |-> br, out |-> out]

\* SequentialThinkingTool.run_impl
think_run_impl(hist, br, tool_input) ==
    LET valid == validate_thought_data(tool_input)
        validated_input == adjust_total(tool_input)
        appended == Append(hist, validated_input)
        branch_id == validated_input.branchId
    IN  IF valid # "ok" THEN ThinkDone(hist, br, ThinkError(valid))
        ELSE IF ~IsBranch(validated_input)
        THEN ThinkDone(appended, br, ThinkResponse(validated_input, br, appended))
        ELSE IF branch_id.type # "str"
        THEN ThinkDone(appended, br, ThinkError("unhashable type"))
        ELSE LET branched == [br EXCEPT ![branch_id.s] = Append(@, validated_input)]
             IN  ThinkDone(appended, branched, ThinkResponse(validated_input, branched, appended))

----------------------------------------------------------------------------
(* SpecThinking: one SequentialThinkingTool is run again and again.        *)

MaxThoughts == 3

ThoughtInput(thought, thoughtNumber, totalThoughts, nextThoughtNeeded, branchFromThought,
             branchId) ==
    [thought |-> thought, thoughtNumber |-> thoughtNumber, totalThoughts |-> totalThoughts,
     nextThoughtNeeded |-> nextThoughtNeeded, branchFromThought |-> branchFromThought,
     branchId |-> branchId]

BranchIds == { "b1", "b2" }

\* thoughtNumber and totalThoughts: below, above, negative, a bool
ThoughtCounts ==
    { <<PyInt(1), PyInt(2)>>, <<PyInt(3), PyInt(2)>>, <<PyInt(0 - 1), PyInt(0 - 2)>>,
      <<PyInt(3), PyInt(0 - 2)>>, <<PyBool(TRUE), PyInt(2)>> }

\* branchFromThought and branchId
ThoughtBranches ==
    { <<PyNone, PyNone>>, <<PyNone, PyStr("b1")>>, <<PyInt(1), PyStr("b1")>>,
      <<PyInt(1), PyStr("b2")>>, <<PyInt(1), PyList>> }

\* inputs with the four required values of the right types
WellTyped ==
    { ThoughtInput(PyStr("t"), c[1], c[2], PyBool(TRUE), b[1], b[2]) :
         c \in ThoughtCounts, b \in ThoughtBranches }

\* inputs with one required value missing, empty, zero or of another type
IllTyped ==
    { ThoughtInput(v, PyInt(1), PyInt(2), PyBool(FALSE), PyNone, PyNone) : v \in { PyNone, PyStr(""), PyInt(5) } }
    \cup { ThoughtInput(PyStr("t"), v, PyInt(2), PyBool(FALSE), PyNone, PyNone) :
              v \in { PyNone, PyInt(0), PyStr("2") } }
    \cup { ThoughtInput(PyStr("t"), PyInt(3), v, PyBool(FALSE), PyInt(1), PyStr("b1")) :
              v \in { PyNone, PyInt(0), PyStr("2") } }
    \cup { ThoughtInput(PyStr("t"), PyInt(1), PyInt(2), v, PyNone, PyNone) :
              v \in { PyNone, PyInt(1), PyStr("yes") } }

ThoughtInputs == WellTyped \cup IllTyped

\* SequentialThinkingTool.__init__
ThinkingInit ==
    /\ history = EmptyHistory
    /\ histErr = "none"
    /\ max_turns = 0
    /\ AgentIdle
    /\ ServerIdle
    /\ MemoryIdle
    /\ EditorUnused
    /\ ParallelIdle
    /\ BashUnused
    /\ thought_history = <<>>
    /\ branches = [b \in BranchIds |-> <<>>]
    /\ think_calls = <<>>
    /\ think_output = ThinkError("")

\* the tool is run with one input; think_calls keeps the inputs of all runs
Think ==
    /\ Len(think_calls) < MaxThoughts
    /\ \E tool_input \in ThoughtInputs :
       \E r \in {think_run_impl(thought_history, branches, tool_input)} :
          /\ thought_history' = r.hist
          /\ branches' = r.br
          /\ think_output' = r.out
          /\ think_calls' = Append(think_calls, tool_input)
    /\ UNCHANGED <<histVars, agentVars, serverVars, agent_memory, editorVars, parallelVars,
                   bashVars>>

ThinkingNext == Think

SpecThinking == ThinkingInit /\ [][ThinkingNext]_vars

----------------------------------------------------------------------------
(* C20 *)

\* C20: whichever context manager is applied to whichever history, the
\* token count of the result of apply_truncation_if_needed is at most the
\* token count of its input.
C20_TruncationNeverGrows ==
    pc \in {"standard", "file_based"} =>
       count_tokens(cur) <= count_tokens(history.message_lists)

\* the same for the file-based manager alone
FileBasedNeverGrows ==
    pc = "file_based" => count_tokens(cur) <= count_tokens(history.message_lists)

\* the file-based manager did replace something
FileBasedTruncated == pc = "file_based" /\ cur # history.message_lists

----------------------------------------------------------------------------
(* C21 *)

\* the last k elements of s, all of s when it has fewer
LastTurns(s, k) == SubSeq(s, IF Len(s) > k THEN Len(s) - k + 1 ELSE 1, Len(s))

\* C21: whichever context manager is applied to a history of whatever
\* length, the last truncate_keep_n_turns turns of the result are those of
\* the input.
C21_RecentTurnsKept ==
    pc \in {"standard", "file_based"} =>
       LastTurns(cur, truncate_keep_n_turns)
          = LastTurns(history.message_lists, truncate_keep_n_turns)

\* the same for the standard manager alone
StandardRecentTurnsKept ==
    pc = "standard" =>
       LastTurns(cur, truncate_keep_n_turns)
          = LastTurns(history.message_lists, truncate_keep_n_turns)

----------------------------------------------------------------------------
(* C22 *)

\* the places (turn, block) where the file-based manager put the
\* "content saved to" message
SavedPlaces ==
    { p \in { <<i, j>> : i \in DOMAIN cur, j \in 1..1 } :
         /\ cur[p[1]][p[2]].kind = "ToolFormattedResult"
         /\ cur[p[1]][p[2]].name \in TOOLS_NEED_OUTPUT_FILE_SAVE
         /\ cur[p[1]][p[2]] # history.message_lists[p[1]][p[2]] }

\* the name of the file the message at place p refers to
SavedName(p) ==
    generate_filename_from_url(PreviousUrl(history.message_lists, p[1]),
                               get_content_hash(history.message_lists[p[1]][p[2]].text))

\* C22: after the file-based manager was applied, every tool result whose
\* output it replaced by the "content saved to" message refers to a file of
\* agent_memory that exists and holds the output that was replaced.
C22_SavedFileHoldsOutput ==
    pc = "file_based" =>
       \A p \in SavedPlaces :
          \E f \in agent_memory :
             /\ f.name = SavedName(p)
             /\ f.content = history.message_lists[p[1]][p[2]].text

\* every replaced output refers to a file that exists
SavedFileExists ==
    pc = "file_based" =>
       \A p \in SavedPlaces : path_exists(agent_memory, SavedName(p))

\* no two files of agent_memory have the same name
SavedFilesDistinct ==
    \A f, g \in agent_memory : f.name = g.name => f = g

----------------------------------------------------------------------------
(* C23 *)

\* the step is a successful undo_edit
UndoStep ==
    /\ run_input'.command = "undo_edit"
    /\ run_output'.success
    /\ file_history' # file_history

\* C23: a successful undo_edit on a path puts back what was at that path
\* before the last str_replace, insert or create on it that was not undone
\* yet, so that successive undo_edit calls go back through the edits in
\* reverse order.
C23_UndoRestoresPrior ==
    [][ UndoStep =>
           LET p == workspace_path(run_input'.path)
           IN  files'[p] = prior[p][Len(prior[p])] ]_vars

----------------------------------------------------------------------------
(* C24 *)

\* the number of places of content where old_str occurs
Occurrences(content, old_str) ==
    Cardinality({ i \in 1..Len(content) : StartsWithAt(content, old_str, i) })

\* the step is a str_replace with a non-blank old_str on an existing file
\* of the workspace
StrReplaceStep ==
    /\ run_input'.command = "str_replace"
    /\ "old_str" \in DOMAIN run_input'
    /\ ~IsBlank(run_input'.old_str)
    /\ is_path_in_directory(workspace_path(run_input'.path))
    /\ files[workspace_path(run_input'.path)].kind = "file"

\* C24: a str_replace with a non-blank old_str changes the file only when
\* old_str occurs exactly once in it; when it occurs nowhere or more than
\* once the command fails and leaves the files and the undo stacks alone.
C24_ReplaceOnlyWhenUnique ==
    [][ StrReplaceStep =>
           LET n == Occurrences(files[workspace_path(run_input'.path)].content,
                                run_input'.old_str)
           IN  /\ files' # files => n = 1
               /\ n # 1 => /\ ~run_output'.success
                           /\ files' = files
                           /\ file_history' = file_history ]_vars

----------------------------------------------------------------------------
(* C25 *)

\* C25: a command whose path resolves outside the workspace root fails with
\* the outside-the-workspace message, whatever the command and whatever is
\* at the path, and neither reads nor writes there.
C25_OutsideRefused ==
    (run_input.command # "none" /\ ~is_path_in_directory(workspace_path(run_input.path)))
       => run_output = Output(FALSE, OUTSIDE_MSG, {}, {})

\* no command writes outside the workspace
OutsideNeverWritten ==
    \A p \in run_output.wrote : is_path_in_directory(p)

----------------------------------------------------------------------------
(* C26 *)

\* the adjusted calls that are left have the inserts first
AdjustedInsertsFirst ==
    \A i, j \in DOMAIN tool_calls :
       (i < j /\ tool_calls[j].command = "insert") => tool_calls[i].command = "insert"

\* the inserts that are left are in ascending line order
AdjustedAscending ==
    \A i, j \in DOMAIN tool_calls :
       (i < j /\ tool_calls[j].command = "insert")
          => tool_calls[i].insert_line <= tool_calls[j].insert_line

\* the calls of the turn were all run
ParallelDone == given.calls # <<>> /\ tool_calls = <<>>

\* the calls of the turn are inserts after lines that differ
InsertsApart(calls) ==
    /\ \A i \in DOMAIN calls : calls[i].command = "insert"
    /\ \A i, j \in DOMAIN calls : i # j => calls[i].insert_line # calls[j].insert_line

\* the lines an insert of the turn puts after line k
TextAfter(calls, k) ==
    IF \E i \in DOMAIN calls : calls[i].insert_line = k
    THEN split_lines(calls[CHOOSE i \in DOMAIN calls : calls[i].insert_line = k].new_str)
    ELSE <<>>

RECURSIVE PlacedFrom(_, _, _)
\* the lines of the file from line k on, each followed by the text that
\* was to be inserted after it
PlacedFrom(lines, calls, k) ==
    IF k > Len(lines) THEN <<>>
    ELSE (IF k = 0 THEN <<>> ELSE <<lines[k]>>) \o TextAfter(calls, k)
            \o PlacedFrom(lines, calls, k + 1)

\* each new_str is directly after the line of the given file it was for
EachPlaced ==
    split_lines(files[<<"a">>].content)
       = PlacedFrom(split_lines(given.content), given.calls, 0)

\* C26: the adjusted calls have the inserts before the str_replace calls
\* and in ascending line order, and once the adjusted inserts of a turn
\* were run one after another, each new_str is directly after the line of
\* the original file it was to be inserted after, whatever the new_str.
C26_AdjustedInsertsPlaced ==
    /\ AdjustedInsertsFirst
    /\ AdjustedAscending
    /\ (ParallelDone /\ InsertsApart(given.calls)) => EachPlaced

\* a text of whole lines: not empty and not ending in a line break
WholeLines(s) == s # <<>> /\ s[Len(s)] # NL

\* the same for texts of whole lines only
PlacedWhenWholeLines ==
    (/\ ParallelDone
     /\ InsertsApart(given.calls)
     /\ \A i \in DOMAIN given.calls : WholeLines(given.calls[i].new_str))
       => EachPlaced

----------------------------------------------------------------------------
(* C27 *)

\* C27: in a tool without filters, the directory and the variable that the
\* commands run so far set are those of the shell the tool holds, after any
\* sequence of runs, also when a command timed out or the probe failed.
C27_ShellStateKept ==
    command_filters = <<>> =>
       /\ set_by_command.cwd # "" => child.cwd = set_by_command.cwd
       /\ set_by_command.env # "" => child.env = set_by_command.env

\* as long as the shell was not started again, the state is kept
ShellStateKeptUntilRestart ==
    (command_filters = <<>> /\ child.gen = 1) =>
       /\ set_by_command.cwd # "" => child.cwd = set_by_command.cwd
       /\ set_by_command.env # "" => child.env = set_by_command.env

----------------------------------------------------------------------------
(* C28 *)

\* the step is a run of the tool that sent its command to the shell
CommandSent ==
    /\ bash_calls' = bash_calls + 1
    /\ bash_output'.reason = ""

\* the command of the step, after the filters
SentCommand == apply_filters(command_filters, bash_input')

\* C28: a command that runs longer than the timeout returns the timed-out
\* message with success false, and the command run next after a timed-out
\* one returns what it printed itself in the shell that ran it.
C28_UsableAfterTimeout ==
    [][ /\ (CommandSent /\ IsLong(SentCommand))
           => bash_output' = BashOutput(TIMED_OUT, FALSE, "")
        /\ (CommandSent /\ bash_output.text = TIMED_OUT /\ ~IsLong(SentCommand))
           => bash_output' = BashOutput(Printed(child', SentCommand), TRUE, "") ]_vars

\* the first half, for a shell that has nothing running and nothing unread
TimeoutReportedInStep ==
    [][ (CommandSent /\ IsLong(SentCommand) /\ child.running = <<>> /\ child.pending = <<>>)
           => bash_output' = BashOutput(TIMED_OUT, FALSE, "") ]_vars

\* after a timed-out command the next one is run in a shell that is not
\* running anything
NextRunInIdleShell ==
    [][ (CommandSent /\ bash_output.text = TIMED_OUT /\ ~IsLong(SentCommand))
           => child'.running = <<>> ]_vars

----------------------------------------------------------------------------
(* C29 *)

\* the command after the filters of the chain were applied, the first one
\* first
LeftToRight(filters, command) ==
    LET f[n \in 0..Len(filters)] ==
           IF n = 0 THEN command ELSE filter_command(filters[n], f[n - 1])
    IN  f[Len(filters)]

\* the step is a run of the tool on a command that, after the filters,
\* holds a banned string
BannedRun ==
    /\ bash_calls' = bash_calls + 1
    /\ \E i \in DOMAIN banned_command_strs(additional_banned_command_strs) :
          Contains(LeftToRight(command_filters, bash_input'),
                   banned_command_strs(additional_banned_command_strs)[i])

\* C29: a command that holds a banned string after the filters were applied
\* from left to right is refused with success false and the banned-command
\* reason, and no confirmation is asked and no line is sent to the shell.
C29_BannedNeverRun ==
    [][ BannedRun =>
           /\ ~bash_output'.success
           /\ bash_output'.reason = "Banned command"
           /\ touched' = touched
           /\ child' = child ]_vars

\* a command was refused for a string that is in it after the filters only,
\* by a tool that asks for confirmation
C29_Witness ==
    /\ bash_output.reason = "Banned command"
    /\ require_confirmation
    /\ command_filters = <<"ssh", "docker">>
    /\ bash_input = PWD
    /\ touched.asked = 0

----------------------------------------------------------------------------
(* C30 *)

\* the input has a non-empty string as thought, non-zero integers as
\* thoughtNumber and totalThoughts and a boolean as nextThoughtNeeded
PassesValidation(input) ==
    /\ input.thought.type = "str" /\ input.thought.s # ""
    /\ input.thoughtNumber.type \in {"int", "bool"} /\ input.thoughtNumber.n # 0
    /\ input.totalThoughts.type \in {"int", "bool"} /\ input.totalThoughts.n # 0
    /\ input.nextThoughtNeeded.type = "bool"

\* the calls so far that passed validation, in call order
ValidCalls == SelectSeq(think_calls, PassesValidation)

\* the history holds the valid calls in call order, but for totalThoughts,
\* which is not below thoughtNumber
HistoryIsValidCalls ==
    /\ Len(thought_history) = Len(ValidCalls)
    /\ \A i \in DOMAIN thought_history :
          /\ [thought_history[i] EXCEPT !.totalThoughts = ValidCalls[i].totalThoughts]
                = ValidCalls[i]
          /\ thought_history[i].totalThoughts.n >= thought_history[i].thoughtNumber.n
          /\ thought_history[i].totalThoughts.n >= ValidCalls[i].totalThoughts.n

\* the response of the last call, when it is not an error, tells the number
\* of valid calls
LengthReported ==
    think_output.error = "" => think_output.thoughtHistoryLength = Len(ValidCalls)

\* a call that fails validation returns an error and changes nothing
InvalidCallIgnored ==
    (think_calls' # think_calls /\ ~PassesValidation(think_calls'[Len(think_calls')]))
       => /\ think_output'.error # ""
          /\ thought_history' = thought_history
          /\ branches' = branches

\* C30: after any sequence of calls the thought history holds exactly the
\* calls that passed validation, in call order, each with totalThoughts not
\* below its thoughtNumber; the thoughtHistoryLength of a response is the
\* number of valid calls so far; and a call that fails validation returns
\* an error and changes neither the history nor the branches.
C30_HistoryHoldsValidCalls ==
    /\ [](HistoryIsValidCalls /\ LengthReported)
    /\ [][InvalidCallIgnored]_vars

\* a thought with totalThoughts raised is in the history, a branch was
\* made, and the last call failed validation
C30_Witness ==
    /\ Len(think_calls) = 3
    /\ Len(thought_history) = 2
    /\ thought_history[1].totalThoughts # think_calls[1].totalThoughts
    /\ branches["b1"] # <<>>
    /\ think_output.error = "Invalid totalThoughts: must be a number"

----------------------------------------------------------------------------
(* C31 *)

\* C31: when run_agent has returned, for whatever reason, the history has
\* the user's turn next, so that a run_agent(resume=True) that follows
\* passes its assertion.
C31_ReturnLeavesUserTurn ==
    pc = "returned" => is_next_turn_user(history)

\* this holds for every return but the one after the turn budget was used up
UserTurnUnlessBudgetUsed ==
    (pc = "returned" /\ result # MaxTurnsAnswer) => is_next_turn_user(history)

----------------------------------------------------------------------------
(* C32 *)

\* the recorded index is the index of a user turn of the history
IndexInHistory(h) ==
    /\ h.last_user_prompt_index % 2 = 0
    /\ h.last_user_prompt_index >= 0
    /\ h.last_user_prompt_index < Len(h.message_lists)

\* C32: whenever a last-user-prompt index is recorded, it is an even index
\* of a turn of the history, and clear_from_last_to_user_message then
\* leaves the turns before it: whole pairs of a user turn and an assistant
\* turn, with the user's turn next and no index recorded.
C32_RecordedIndexIsUserTurn ==
    history.last_user_prompt_index # None =>
       LET after == clear_from_last_to_user_message(history)
       IN  /\ IndexInHistory(history)
           /\ after.message_lists
                 = SubSeq(history.message_lists, 1, history.last_user_prompt_index)
           /\ Len(after.message_lists) % 2 = 0
           /\ Alternates(after.message_lists)
           /\ is_next_turn_user(after)
           /\ after.last_user_prompt_index = None

\* the second prompt is recorded behind a whole exchange, with turns after it
C32_Witness ==
    /\ history.last_user_prompt_index = 2
    /\ Len(history.message_lists) = 4
    /\ histErr = "none"
    /\ Len(clear_from_last_to_user_message(history).message_lists) = 2

----------------------------------------------------------------------------
(* C33 *)

\* the message lists a and b have the same turns, blocks and block
\* identities: the same number of turns, in each turn the same number of
\* blocks, and for each block the same kind, tool_call_id and tool_name
SameShape(a, b) ==
    /\ Len(a) = Len(b)
    /\ \A i \in DOMAIN a :
          /\ i \in DOMAIN b
          /\ Len(a[i]) = Len(b[i])
          /\ \A j \in DOMAIN a[i] :
                /\ j \in DOMAIN b[i]
                /\ a[i][j].kind = b[i][j].kind
                /\ a[i][j].id = b[i][j].id
                /\ a[i][j].name = b[i][j].name

\* what writing ml back with set_message_list keeps of the history h
WriteBackKeeps(h, ml) ==
    LET written == set_message_list(h, ml)
    IN  /\ Alternates(h.message_lists) => Alternates(written.message_lists)
        /\ Answered(h.message_lists) => Answered(written.message_lists)
        /\ written.last_user_prompt_index = h.last_user_prompt_index
        /\ \A i \in DOMAIN h.message_lists :
              /\ i \in DOMAIN written.message_lists
              /\ UserTurn(h.message_lists[i]) <=> UserTurn(written.message_lists[i])
        /\ (h.last_user_prompt_index # None /\ IndexInHistory(h))
              => IndexInHistory(written)

\* the result of either context manager, held in cur, against its input
TruncationKeepsShape ==
    pc \in {"standard", "file_based"} =>
        /\ SameShape(cur, history.message_lists)
        /\ WriteBackKeeps(history, cur)

\* the step of either context manager leaves its input as it was
TruncationKeepsInput ==
    (pc = "idle" /\ pc' \in {"standard", "file_based"}) => history' = history

TurnTruncateKeepsShape ==
    (pc = "snap" /\ pc' = "generate") =>
        /\ SameShape(history'.message_lists, history.message_lists)
        /\ history'.last_user_prompt_index = history.last_user_prompt_index
        /\ Alternates(history.message_lists) => Alternates(history'.message_lists)
        /\ Answered(history.message_lists) => Answered(history'.message_lists)

TurnTruncateKeepsShapeAlways == [][TurnTruncateKeepsShape]_vars

----------------------------------------------------------------------------
(* C34 *)

\* a round of the worker that sends an event sends the event it took from
\* the queue, in the round that has saved it, and the event is not one of
\* the client's own messages
SentAfterSaved ==
    sent' # sent =>
        /\ queue # <<>>
        /\ Head(queue).type # "user_message"
        /\ sent' = Append(sent, Head(queue))
        /\ db' = Append(db, Head(queue))
        /\ Last(db') = Last(sent')

\* a round of the worker that takes a user_message saves it, unless the
\* write fails, and sends nothing
UserMessageSavedOnly ==
    (queue # <<>> /\ Len(queue') < Len(queue) /\ Head(queue).type = "user_message") =>
        /\ sent' = sent
        /\ db' = Append(db, Head(queue)) \/ (db' = db /\ faults' = faults + 1)

NoUserMessageSent == \A i \in DOMAIN sent : sent[i].type # "user_message"

\* C34: with a session id set, every event the worker sends to the client
\* was saved to the database before, in the same round of the worker, and a
\* user_message event is saved but never sent to the client.
C34_PersistedBeforeSent ==
    /\ []NoUserMessageSent
    /\ [][SentAfterSaved /\ UserMessageSavedOnly]_vars

\* the worker has saved a user_message and an event of the run, and has
\* sent the client the event of the run only
C34_Witness ==
    /\ Len(sent) = 1
    /\ Len(db) = 2
    /\ db[1].type = "user_message"
    /\ db[2] = sent[1]
    /\ faults = 0

----------------------------------------------------------------------------
(* C35 *)

\* the step runs a command that returns success false
FailedStep == run_input'.command # "none" /\ ~run_output'.success

\* the step leaves the files and the undo stacks alone and sends no update
NothingChanged ==
    /\ files' = files
    /\ file_history' = file_history
    /\ run_output'.wrote = {}

\* C35: an editor command that returns success false leaves the content of
\* every file and every undo stack unchanged and sends no file_edit event.
C35_FailureChangesNothing ==
    [][ FailedStep => NothingChanged ]_vars

\* a command that fails before it reaches a write (a missing parameter, an
\* invalid insert line, no match or several, a create on a file that is not
\* empty, an undo with nothing to undo, a path outside the workspace)
\* changes nothing: only the refused write of an undo_edit, which has
\* popped the undo stack by then, fails with a stack changed
RefusedBeforeWriteChangesNothing ==
    [][ (FailedStep /\ run_output'.text # "Ran into") => NothingChanged ]_vars

\* a failed command never writes a file nor sends an update
FailedNeverWrites ==
    [][ FailedStep => (files' = files /\ run_output'.wrote = {}) ]_vars

----------------------------------------------------------------------------
(* C36 *)

\* the agent_response events the run has put on the queue
AgentResponses == EventsOf(runEvents, "agent_response")

\* C36: a run_agent call that has returned has put exactly one
\* agent_response event on the queue, as the last of the events of the
\* run; while the run goes on it has put none.
C36_OneAgentResponseLast ==
    /\ pc = "returned" =>
          /\ Len(AgentResponses) = 1
          /\ Last(runEvents).type = "agent_response"
          /\ Last(runEvents).text \in {"Task completed", answer, MaxTurnsAnswer,
                                       AgentInterruptMessage, ToolInterruptMessage}
    /\ InRun => AgentResponses = <<>>

\* a run was interrupted while its tool ran and returned: its tool_call
\* event is followed by the agent_response, the only one of the run
C36_Witness ==
    /\ pc = "returned"
    /\ intAt = "tool"
    /\ result = ToolInterruptMessage
    /\ Len(runEvents) = 2
    /\ runEvents[1].type = "tool_call"
    /\ runEvents[2] = Last(AgentResponses)
    /\ Len(AgentResponses) = 1

\* a run that raised has put no agent_response on the queue
RaisedWithoutResponse == pc = "raised" => AgentResponses = <<>>

\* the events of the run are the last ones of the queue, in order
RunEventsLastOnQueue ==
    Len(runEvents) <= Len(queue)
       /\ SubSeq(queue, Len(queue) - Len(runEvents) + 1, Len(queue)) = runEvents

====
